---- MODULE Spec2Model ----
(***************************************************************************)
(* Model of maritime_route_simulation: the AIS ingestion pipeline,         *)
(* src/data_engineering/ais_data_receiver.py (DataQualityMonitor,          *)
(* DatabaseManager, AISProcessor, websocket_client, main_data_receiver),   *)
(* and the Vessel of the simulator, src/simulation/ais_simulation.py.      *)
(*                                                                         *)
(* Optional values (Python None / a key missing from a dict) are modelled  *)
(* as sequences: <<>> is "absent", <<v>> is "present with value v".        *)
(***************************************************************************)
EXTENDS Integers, Sequences, FiniteSets, TLC

VARIABLES
    pc,                 \* position of main_data_receiver
    db,                 \* the PostgreSQL server: "up", "failing", "down"
    conn,               \* DatabaseManager.conn
    message_buffer,     \* DatabaseManager.message_buffer
    last_flush_time,    \* DatabaseManager.last_flush_time
    ais_messages,       \* committed rows of table ais_messages
    vessels,            \* committed rows of table vessels, by mmsi
    now,                \* datetime.datetime.now(), in seconds
    total_messages,     \* DataQualityMonitor counters
    valid_messages,
    invalid_messages,
    duplicate_messages,
    malformed_messages,
    last_report_time,   \* DataQualityMonitor.last_report_time
    op,                 \* history: the operation that ran last
    flushOutcome,       \* history: how flush_buffer ended in the last operation
    handed,             \* history: the record the last operation gave to store_message
    lastIn,             \* history: facts about the wire message processed last
    flushed,            \* history: per mmsi, the records committed by flushes so far
    closeSnapshot,      \* history: message_buffer as it was when close() was called
    vdata,              \* the dict given to validate_ais_message
    vresult,            \* what validate_ais_message returned for it
    ws,                 \* position of websocket_client
    sleep_left,         \* seconds left of the asyncio.sleep(5) of websocket_client
    inbox,              \* messages of the connection not yet returned by recv()
    sent,               \* history: number of messages the server has sent
    processed,          \* history: the messages given to process_message, in order
    vessel,             \* a Vessel of the simulator
    ret,                \* what the last update_position call returned
    ticks,              \* history: number of update_position calls made
    was_complete,       \* history: an update_position call has returned complete
    sim_vessels,        \* AISSimulator.vessels, by mmsi
    simulation_running, \* AISSimulator.simulation_running
    simulation_thread,  \* AISSimulator.simulation_thread: <<>> or <<thread>>
    simulation_speed_factor,
    websocket_connections,  \* AISSimulator.websocket_connections
    threads,            \* the _run_simulation threads started so far
    handlers,           \* position of handle_websocket_connection, by subscriber
    main_pc,            \* what the event loop of the simulator is doing
    wall,               \* datetime.now() of the simulator, in seconds
    commands,           \* history: number of commands handled
    emitted,            \* history: per vessel, reports broadcast and the last timestamp
    reported,           \* history: per vessel, the last report generated
    stop_acked,         \* history: a stop was acknowledged and no start came since
    sim_op              \* history: the step of the simulator taken last

vars == <<pc, db, conn, message_buffer, last_flush_time, ais_messages, vessels,
          now, total_messages, valid_messages, invalid_messages,
          duplicate_messages, malformed_messages, last_report_time,
          op, flushOutcome, handed, lastIn, flushed, closeSnapshot,
          vdata, vresult, ws, sleep_left, inbox, sent, processed,
          vessel, ret, ticks, was_complete,
          sim_vessels, simulation_running, simulation_thread,
          simulation_speed_factor, websocket_connections, threads, handlers,
          main_pc, wall, commands, emitted, reported, stop_acked, sim_op>>

valVars == <<vdata, vresult>>
clientVars == <<ws, sleep_left, inbox, sent, processed>>
simVars == <<vessel, ret, ticks, was_complete>>
srvVars == <<sim_vessels, simulation_running, simulation_thread,
             simulation_speed_factor, websocket_connections, threads, handlers,
             main_pc, wall, commands, emitted, reported, stop_acked, sim_op>>

----------------------------------------------------------------------------
(* Bounds of the model *)

\* DatabaseManager.buffer_size (100 in the source), scaled down
BufferSize == 2
\* number of wire messages received in one run
MaxMessages == 3
\* number of wire messages received in one run of the wide-input specification
MaxProcMessages == 2
\* the clock stops advancing here
MaxTime == 6

(* Program constants *)

\* DatabaseManager.flush_interval, seconds
FlushInterval == 5
\* DataQualityMonitor.report_interval, seconds
ReportInterval == 300

----------------------------------------------------------------------------
(* Small helpers *)

Min(a, b) == IF a <= b THEN a ELSE b
Max(a, b) == IF a >= b THEN a ELSE b

SetMin(S) == CHOOSE x \in S : \A y \in S : x <= y
SetMax(S) == CHOOSE x \in S : \A y \in S : x >= y

\* dict.get(key, default) on an optional field
GetOr(opt, default) == IF opt = <<>> THEN default ELSE opt[1]

EmptyFn == [x \in {} |-> 0]

\* f with key k bound to v
Extend(f, k, v) == [x \in DOMAIN f \cup {k} |-> IF x = k THEN v ELSE f[x]]

----------------------------------------------------------------------------
(* Wire messages and the decode boundary                                   *)
(*                                                                         *)
(* A payload string is the pair of what decode_ais_payload looks at: the   *)
(* number of comma separated parts, and what pyais.decode(...).asdict()    *)
(* gives for it (<<>> when pyais raises).  A decoded dict has the optional *)
(* fields mmsi, lat, lon, msg_type; a present mmsi says whether it is an   *)
(* int.                                                                    *)

DictOf(m, la, lo, ty) == [mmsi |-> m, lat |-> la, lon |-> lo, msg_type |-> ty]

IntMmsi(v) == <<[isint |-> TRUE, val |-> v]>>
NonIntMmsi == <<[isint |-> FALSE, val |-> 1]>>

\* bool(d) of a dict: an empty dict is falsy
DictTruthy(d) == d.mmsi # <<>> \/ d.lat # <<>> \/ d.lon # <<>> \/ d.msg_type # <<>>

\* AISProcessor.decode_ais_payload: None is <<>>
decode_ais_payload(payload) ==
    IF payload.parts >= 2 /\ payload.parts >= 6
    THEN payload.body
    ELSE <<>>

ValidateMmsi(data) ==
    IF data.mmsi = <<>> \/ ~data.mmsi[1].isint \/ data.mmsi[1].val <= 0
    THEN <<[msg |-> "Invalid MMSI number", arg |-> <<>>]>>
    ELSE <<>>

ValidateCoordinates(data) ==
    IF data.lat = <<>> \/ data.lon = <<>>
    THEN <<[msg |-> "Missing coordinates", arg |-> <<>>]>>
    ELSE IF ~(-90 <= GetOr(data.lat, 0) /\ GetOr(data.lat, 0) <= 90)
    THEN <<[msg |-> "Invalid latitude", arg |-> data.lat]>>
    ELSE IF ~(-180 <= GetOr(data.lon, 0) /\ GetOr(data.lon, 0) <= 180)
    THEN <<[msg |-> "Invalid longitude", arg |-> data.lon]>>
    ELSE <<>>

ValidateRequired(data) ==
    IF data.msg_type = <<>>
    THEN <<[msg |-> "Missing required field: msg_type", arg |-> <<>>]>>
    ELSE <<>>

\* AISProcessor.validate_ais_message: (is_valid, error_list)
validate_ais_message(data) ==
    LET errors == ValidateMmsi(data) \o ValidateCoordinates(data) \o ValidateRequired(data)
    IN  [is_valid |-> Len(errors) = 0, errors |-> errors]

\* f"{mmsi}_{timestamp.isoformat()}"
MessageId(mmsi, timestamp) == <<mmsi, timestamp>>

\* mutant of AISMessage: is_valid and validation_errors left to the
\* dataclass defaults
AISMessageDefaults(mmsi, timestamp, payload_str, decoded_data, v) ==
    [message_id        |-> MessageId(mmsi, timestamp),
     mmsi              |-> mmsi,
     timestamp         |-> timestamp,
     payload           |-> payload_str,
     latitude          |-> GetOr(decoded_data.lat, 0),
     longitude         |-> GetOr(decoded_data.lon, 0),
     message_type      |-> decoded_data.msg_type,
     is_valid          |-> TRUE,
     validation_errors |-> <<>>]

\* the AISMessage built by process_message
AISMessage(mmsi, timestamp, payload_str, decoded_data, v) ==
    [message_id        |-> MessageId(mmsi, timestamp),
     mmsi              |-> mmsi,
     timestamp         |-> timestamp,
     payload           |-> payload_str,
     latitude          |-> GetOr(decoded_data.lat, 0),
     longitude         |-> GetOr(decoded_data.lon, 0),
     message_type      |-> decoded_data.msg_type,
     is_valid          |-> v.is_valid,
     validation_errors |-> v.errors]

\* all([mmsi, timestamp_str, payload]): None, 0, "" and [] are falsy
MmsiTruthy(w) == w.mmsi # <<>> /\ w.mmsi[1] # 0
TimestampTruthy(w) == w.timestamp.kind # "absent"
PayloadTruthy(w) == w.payload.kind # "absent" /\ w.payload.items # <<>>
HasRequiredFields(w) == MmsiTruthy(w) /\ TimestampTruthy(w) /\ PayloadTruthy(w)

\* payload[0] of a list, the payload itself otherwise
PayloadStr(w) == w.payload.items[1]

----------------------------------------------------------------------------
(* DataQualityMonitor *)

Quality == [total |-> total_messages, valid |-> valid_messages,
            invalid |-> invalid_messages, duplicate |-> duplicate_messages,
            malformed |-> malformed_messages, last_report |-> last_report_time]

\* mutant of ShouldReport: a report is due as soon as report_interval has
\* elapsed
ShouldReportAtInterval(t, last_report) == t - last_report >= ReportInterval

\* now - self.last_report_time > self.report_interval
ShouldReport(t, last_report) == t - last_report > ReportInterval

\* mutant of record_message: the counters start again after a report
record_messageResetOnReport(q, is_valid, is_duplicate, is_malformed, t) ==
    IF ShouldReport(t, q.last_report)
    THEN [total |-> 0, valid |-> 0, invalid |-> 0, duplicate |-> 0, malformed |-> 0,
          last_report |-> t]
    ELSE [total       |-> q.total + 1,
          valid       |-> IF is_valid THEN q.valid + 1 ELSE q.valid,
          invalid     |-> IF is_valid THEN q.invalid ELSE q.invalid + 1,
          duplicate   |-> IF is_duplicate THEN q.duplicate + 1 ELSE q.duplicate,
          malformed   |-> IF is_malformed THEN q.malformed + 1 ELSE q.malformed,
          last_report |-> q.last_report]

\* mutant of record_message: a malformed message counts as malformed only
record_messageMalformedApart(q, is_valid, is_duplicate, is_malformed, t) ==
    [total       |-> q.total + 1,
     valid       |-> IF is_valid THEN q.valid + 1 ELSE q.valid,
     invalid     |-> IF is_valid \/ is_malformed THEN q.invalid ELSE q.invalid + 1,
     duplicate   |-> IF is_duplicate THEN q.duplicate + 1 ELSE q.duplicate,
     malformed   |-> IF is_malformed THEN q.malformed + 1 ELSE q.malformed,
     last_report |-> IF t - q.last_report > ReportInterval THEN t ELSE q.last_report]

\* mutant of record_message: the malformed flag is ignored
record_messageNoMalformed(q, is_valid, is_duplicate, is_malformed, t) ==
    [total       |-> q.total + 1,
     valid       |-> IF is_valid THEN q.valid + 1 ELSE q.valid,
     invalid     |-> IF is_valid THEN q.invalid ELSE q.invalid + 1,
     duplicate   |-> IF is_duplicate THEN q.duplicate + 1 ELSE q.duplicate,
     malformed   |-> q.malformed,
     last_report |-> IF t - q.last_report > ReportInterval THEN t ELSE q.last_report]

\* DataQualityMonitor.record_message at time t
record_message(q, is_valid, is_duplicate, is_malformed, t) ==
    [total       |-> q.total + 1,
     valid       |-> IF is_valid THEN q.valid + 1 ELSE q.valid,
     invalid     |-> IF is_valid THEN q.invalid ELSE q.invalid + 1,
     duplicate   |-> IF is_duplicate THEN q.duplicate + 1 ELSE q.duplicate,
     malformed   |-> IF is_malformed THEN q.malformed + 1 ELSE q.malformed,
     last_report |-> IF ShouldReport(t, q.last_report) THEN t ELSE q.last_report]

SetQuality(q) ==
    /\ total_messages' = q.total
    /\ valid_messages' = q.valid
    /\ invalid_messages' = q.invalid
    /\ duplicate_messages' = q.duplicate
    /\ malformed_messages' = q.malformed
    /\ last_report_time' = q.last_report

----------------------------------------------------------------------------
(* DatabaseManager *)

\* the columns of the unique index idx_unique_message
Key(r) == <<r.mmsi, r.timestamp, r.latitude, r.longitude>>

\* the tuple of values flush_buffer builds for one message
RowOf(msg) ==
    [message_id        |-> msg.message_id,
     mmsi              |-> msg.mmsi,
     timestamp         |-> msg.timestamp,
     payload           |-> msg.payload,
     latitude          |-> msg.latitude,
     longitude         |-> msg.longitude,
     message_type      |-> msg.message_type,
     is_valid          |-> msg.is_valid,
     validation_errors |-> IF msg.validation_errors # <<>>
                           THEN <<msg.validation_errors>> ELSE <<>>,
     geom              |-> <<msg.longitude, msg.latitude>>]

\* mutant of InsertRow: ON CONFLICT ... DO UPDATE, the last write wins
InsertRowLastWins(table, row) ==
    IF \E i \in 1..Len(table) : Key(table[i]) = Key(row)
    THEN [i \in 1..Len(table) |-> IF Key(table[i]) = Key(row) THEN row ELSE table[i]]
    ELSE Append(table, row)

\* INSERT ... ON CONFLICT (mmsi, timestamp, latitude, longitude) DO NOTHING, one row
InsertRow(table, row) ==
    IF \E i \in 1..Len(table) : Key(table[i]) = Key(row)
    THEN table
    ELSE Append(table, row)

\* the INSERT over the whole batch, in buffer order
RECURSIVE InsertMessages(_, _)
InsertMessages(table, batch) ==
    IF batch = <<>>
    THEN table
    ELSE InsertMessages(InsertRow(table, RowOf(Head(batch))), Tail(batch))

\* the mmsi_latest dict: mmsi -> (first_seen, last_seen) over the batch
RECURSIVE MmsiLatest(_)
MmsiLatest(batch) ==
    IF batch = <<>>
    THEN EmptyFn
    ELSE LET prev == MmsiLatest(SubSeq(batch, 1, Len(batch) - 1))
             msg  == batch[Len(batch)]
         IN  IF msg.mmsi \notin DOMAIN prev
             THEN Extend(prev, msg.mmsi, <<msg.timestamp, msg.timestamp>>)
             ELSE [prev EXCEPT ![msg.mmsi] =
                       <<Min(@[1], msg.timestamp), Max(@[2], msg.timestamp)>>]

\* mutant of Least: first_seen = EXCLUDED.first_seen
LeastExcludedOnly(stored, excluded) == excluded

\* SQL LEAST and GREATEST of the stored and the EXCLUDED value
Least(stored, excluded) == Min(stored, excluded)
Greatest(stored, excluded) == Max(stored, excluded)

\* the message_count of a vessels row after an upsert (<<>>: no row yet)
NextMessageCount(row) == IF row = <<>> THEN 1 ELSE row[1].message_count + 1

\* INSERT INTO vessels ... ON CONFLICT (mmsi) DO UPDATE, over mmsi_values
UpsertVessels(vs, latest) ==
    [m \in DOMAIN vs \cup DOMAIN latest |->
        IF m \notin DOMAIN latest THEN vs[m]
        ELSE IF m \notin DOMAIN vs
        THEN [first_seen |-> latest[m][1], last_seen |-> latest[m][2],
              message_count |-> NextMessageCount(<<>>)]
        ELSE [first_seen |-> Least(vs[m].first_seen, latest[m][1]),
              last_seen |-> Greatest(vs[m].last_seen, latest[m][2]),
              message_count |-> NextMessageCount(<<vs[m]>>)]]

\* where a statement of the flush transaction can fail
FailPoints == {"insert", "vessels", "commit"}

\* the statements of the flush transaction up to the one that fails:
\* the tables as the open transaction sees them
Working(table, vs, batch, failAt) ==
    IF failAt = "insert" THEN [ais |-> table, vessels |-> vs]
    ELSE IF failAt = "vessels"
    THEN [ais |-> InsertMessages(table, batch), vessels |-> vs]
    ELSE [ais |-> InsertMessages(table, batch),
          vessels |-> UpsertVessels(vs, MmsiLatest(batch))]

\* conn.rollback(): the committed tables stand
Rollback(committed, working) == committed

\* psycopg2.connect: succeeds when the server is reachable
CanConnect(d) == d # "down"

\* mutant of AfterFlush: the buffer is emptied whether or not the commit succeeded
AfterFlushAlwaysClears(buf, lft, t, committed) ==
    [message_buffer |-> <<>>, last_flush_time |-> t]

\* the buffer and flush clock after the transaction: emptied and reset only
\* after conn.commit() returned
AfterFlush(buf, lft, t, committed) ==
    IF committed
    THEN [message_buffer |-> <<>>, last_flush_time |-> t]
    ELSE [message_buffer |-> buf, last_flush_time |-> lft]

\* DatabaseManager.flush_buffer at time t.  outcome: "empty" (nothing to do),
\* "no_connection" (connect failed), "committed", "rolled_back" (a statement
\* failed, rollback succeeded), "raised" (the connection is gone: cursor() or
\* the statement raises, and so does rollback() in the except clause)
flush_buffer(buf, c, d, table, vs, lft, t, failAt) ==
    LET same == [message_buffer |-> buf, conn |-> c, ais_messages |-> table,
                 vessels |-> vs, last_flush_time |-> lft]
    IN
    IF buf = <<>> THEN same @@ [outcome |-> "empty"]
    ELSE IF c = "none" /\ ~CanConnect(d)
    THEN same @@ [outcome |-> "no_connection"]
    ELSE
        LET c1 == IF c = "none" THEN "open" ELSE c
        IN  IF c1 # "open"
            THEN [same EXCEPT !.conn = c1] @@ [outcome |-> "raised"]
            ELSE LET work == Working(table, vs, buf, failAt)
                     ok   == failAt = "none"
                     tabs == IF ok THEN work
                             ELSE Rollback([ais |-> table, vessels |-> vs], work)
                     mem  == AfterFlush(buf, lft, t, ok)
                 IN  [message_buffer |-> mem.message_buffer,
                      conn |-> c1,
                      ais_messages |-> tabs.ais,
                      vessels |-> tabs.vessels,
                      last_flush_time |-> mem.last_flush_time,
                      outcome |-> IF ok THEN "committed" ELSE "rolled_back"]

\* mutant of ShouldFlush: > instead of >= on the buffer length
ShouldFlushAboveSize(len, t, lft) == len > BufferSize \/ (t - lft) > FlushInterval

\* mutant of ShouldFlush: the elapsed time is not looked at
ShouldFlushSizeOnly(len, t, lft) == len >= BufferSize

\* the trigger of store_message
ShouldFlush(len, t, lft) == len >= BufferSize \/ (t - lft) > FlushInterval

\* DatabaseManager.store_message at time t
store_message(buf, c, d, table, vs, lft, t, failAt, message) ==
    LET buf1 == Append(buf, message)
    IN  IF ShouldFlush(Len(buf1), t, lft)
        THEN flush_buffer(buf1, c, d, table, vs, lft, t, failAt)
        ELSE [message_buffer |-> buf1, conn |-> c, ais_messages |-> table,
              vessels |-> vs, last_flush_time |-> lft, outcome |-> "not_called"]

\* history: what a committed flush of batch adds to the per-mmsi tally
Tally(fl, batch) ==
    LET ms == {batch[i].mmsi : i \in 1..Len(batch)}
        old(m) == IF m \in DOMAIN fl THEN fl[m] ELSE [count |-> 0, seen |-> {}]
        idx(m) == {i \in 1..Len(batch) : batch[i].mmsi = m}
    IN  [m \in DOMAIN fl \cup ms |->
            IF m \notin ms THEN fl[m]
            ELSE [count |-> old(m).count + Cardinality(idx(m)),
                  seen  |-> old(m).seen \cup {batch[i].timestamp : i \in idx(m)}]]

\* the faults a flush can meet in the current state of the server
Faults == IF db = "failing" THEN FailPoints ELSE {"none"}

\* assign the DatabaseManager state from the result r of store_message / flush_buffer
SetDatabase(r, batch) ==
    /\ message_buffer' = r.message_buffer
    /\ conn' = r.conn
    /\ ais_messages' = r.ais_messages
    /\ vessels' = r.vessels
    /\ last_flush_time' = r.last_flush_time
    /\ flushOutcome' = r.outcome
    /\ flushed' = IF r.outcome = "committed" THEN Tally(flushed, batch) ELSE flushed

----------------------------------------------------------------------------
(* AISProcessor.process_message *)

\* mutant of is_duplicate: a record whose key is stored or buffered already
\* is flagged
is_duplicateIfKnown(ais_message) ==
    \/ \E j \in 1..Len(ais_messages) : Key(ais_messages[j]) = Key(ais_message)
    \/ \E j \in 1..Len(message_buffer) : Key(message_buffer[j]) = Key(ais_message)

\* the is_duplicate argument of record_message for a decoded message: the
\* call passes none, so the default applies
is_duplicate(ais_message) == FALSE

\* the DatabaseManager state when store_message is not reached
Untouched ==
    [message_buffer |-> message_buffer, conn |-> conn, ais_messages |-> ais_messages,
     vessels |-> vessels, last_flush_time |-> last_flush_time, outcome |-> "not_called"]

\* timestamp of the record: fromisoformat(timestamp_str), or now() on ValueError
ParseTimestamp(w, t) == IF w.timestamp.kind = "iso" THEN w.timestamp.val ELSE t

\* the decoded dict of the wire message's (first) payload is usable
Decodes(w) ==
    /\ PayloadTruthy(w)
    /\ decode_ais_payload(PayloadStr(w)) # <<>>
    /\ DictTruthy(decode_ais_payload(PayloadStr(w))[1])

\* history: what the claims need to know about the wire message
InputFacts(w) ==
    [object   |-> w.json = "object",
     required |-> w.json = "object" /\ HasRequiredFields(w),
     ts_kind  |-> w.timestamp.kind,
     decodes  |-> Decodes(w)]

\* the record process_message builds once the payload is decoded
BuildMessage(w, t) ==
    LET decoded_data == decode_ais_payload(PayloadStr(w))[1]
    IN  AISMessage(w.mmsi[1], ParseTimestamp(w, t), PayloadStr(w), decoded_data,
                   validate_ais_message(decoded_data))

\* process_message at time `now`: the quality counters, the DatabaseManager
\* state and the record given to store_message (<<>>: none)
Process(w, failAt) ==
    IF w.json = "invalid"
    THEN \* json.JSONDecodeError
         [q |-> record_message(Quality, FALSE, FALSE, TRUE, now),
          r |-> Untouched, handed |-> <<>>]
    ELSE IF w.json # "object"
    THEN \* message_data.get raises, caught by except Exception
         [q |-> record_message(Quality, FALSE, FALSE, FALSE, now),
          r |-> Untouched, handed |-> <<>>]
    ELSE IF ~HasRequiredFields(w)
    THEN [q |-> record_message(Quality, FALSE, FALSE, TRUE, now),
          r |-> Untouched, handed |-> <<>>]
    ELSE IF w.timestamp.kind = "nonstr"
    THEN \* fromisoformat raises TypeError, caught by except Exception
         [q |-> record_message(Quality, FALSE, FALSE, FALSE, now),
          r |-> Untouched, handed |-> <<>>]
    ELSE IF ~Decodes(w)
    THEN [q |-> record_message(Quality, FALSE, FALSE, TRUE, now),
          r |-> Untouched, handed |-> <<>>]
    ELSE LET ais_message == BuildMessage(w, now)
             q1 == record_message(Quality, ais_message.is_valid,
                                  is_duplicate(ais_message), FALSE, now)
             r1 == store_message(message_buffer, conn, db, ais_messages, vessels,
                                 last_flush_time, now, failAt, ais_message)
         IN  [q |-> IF r1.outcome = "raised"
                    THEN \* the exception of flush_buffer reaches except Exception
                         record_message(q1, FALSE, FALSE, FALSE, now)
                    ELSE q1,
              r |-> r1, handed |-> <<ais_message>>]

ProcessMessage(w, failAt) ==
    LET p == Process(w, failAt)
    IN  /\ SetQuality(p.q)
        /\ SetDatabase(p.r, IF p.handed = <<>> THEN <<>>
                            ELSE Append(message_buffer, p.handed[1]))
        /\ handed' = p.handed
        /\ lastIn' = InputFacts(w)
        /\ op' = "process"
        /\ UNCHANGED <<pc, db, now, closeSnapshot>>

----------------------------------------------------------------------------
(* Inputs *)

Absent == [kind |-> "absent", val |-> 0]
Iso(v) == [kind |-> "iso", val |-> v]

\* an AIVDM sentence of `parts` comma separated fields that pyais decodes to
\* a position report
Sentence(parts, m, la, lo) ==
    [parts |-> parts, body |-> <<DictOf(IntMmsi(m), <<la>>, <<lo>>, <<1>>)>>]

WireMessage(m, ts, payload) ==
    [json |-> "object", mmsi |-> m, timestamp |-> ts, payload |-> payload]

StrPayload(s) == [kind |-> "str", items |-> <<s>>]

\* what the simulator sends: vessel 1 reports at two times, each report in
\* two sentences of the same position; vessel 2 reports once
Reports == {<<1, 1, 7>>, <<1, 1, 8>>, <<1, 2, 7>>, <<1, 2, 8>>, <<2, 1, 7>>}

WiresDb ==
    {WireMessage(<<x[1]>>, Iso(x[2]), StrPayload(Sentence(x[3], x[1], 10, 20))) :
        x \in Reports}

BadStr == [kind |-> "badstr", val |-> 0]
NonStr == [kind |-> "nonstr", val |-> 0]

\* payload strings: too short to be tried, rejected by pyais, and sentences
\* that decode to dicts that pass or break each rule of the validator
Decodeds ==
    {DictOf(IntMmsi(1), <<10>>, <<20>>, <<1>>),
     DictOf(IntMmsi(1), <<90>>, <<-180>>, <<1>>),
     DictOf(IntMmsi(0), <<10>>, <<20>>, <<1>>),
     DictOf(IntMmsi(1), <<>>, <<20>>, <<1>>),
     DictOf(IntMmsi(1), <<91>>, <<181>>, <<1>>),
     DictOf(<<>>, <<-91>>, <<20>>, <<>>)}

TooShort == [parts |-> 1, body |-> <<>>]
Garbled == [parts |-> 7, body |-> <<>>]

PayloadStrings ==
    {TooShort,
     [parts |-> 5, body |-> <<DictOf(IntMmsi(1), <<10>>, <<20>>, <<1>>)>>],
     Garbled,
     [parts |-> 7, body |-> <<DictOf(<<>>, <<>>, <<>>, <<>>)>>]}
    \cup {[parts |-> 7, body |-> <<d>>] : d \in Decodeds}

\* a payload is absent, a string, or a list whose first element is used
WirePayloads ==
    {[kind |-> "absent", items |-> <<>>], [kind |-> "list", items |-> <<>>]}
    \cup {StrPayload(s) : s \in PayloadStrings}
    \cup {[kind |-> "list", items |-> <<s, TooShort>>] :
            s \in {TooShort, Garbled, Sentence(7, 1, 10, 20)}}

\* every kind of wire message: not JSON, JSON that is no object, and objects
\* with each field absent, falsy, ill-typed or usable
WiresAll ==
    {[json |-> j, mmsi |-> <<>>, timestamp |-> Absent,
      payload |-> [kind |-> "absent", items |-> <<>>]] : j \in {"invalid", "nonobject"}}
    \cup {WireMessage(m, ts, pl) :
            m \in {<<>>, <<0>>, <<-1>>, <<1>>},
            ts \in {Absent, Iso(1), BadStr, NonStr},
            pl \in WirePayloads}

NoInput == [object |-> FALSE, required |-> FALSE, ts_kind |-> "absent", decodes |-> FALSE]

----------------------------------------------------------------------------
(* main_data_receiver and its environment *)

InitReceiver ==
    /\ pc = "start"
    /\ db = "up"
    /\ conn = "none"
    /\ message_buffer = <<>>
    /\ last_flush_time = 0
    /\ ais_messages = <<>>
    /\ vessels = EmptyFn
    /\ now = 0
    /\ total_messages = 0
    /\ valid_messages = 0
    /\ invalid_messages = 0
    /\ duplicate_messages = 0
    /\ malformed_messages = 0
    /\ last_report_time = 0
    /\ op = "init"
    /\ flushOutcome = "not_called"
    /\ handed = <<>>
    /\ lastIn = NoInput
    /\ flushed = EmptyFn
    /\ closeSnapshot = <<>>

\* nothing has been validated on its own
NoValidation == vdata = <<>> /\ vresult = <<>>

\* websocket_client has not been started
NoClient ==
    /\ ws = "off"
    /\ sleep_left = 0
    /\ inbox = <<>>
    /\ sent = 0
    /\ processed = <<>>

\* no Vessel has been constructed
NoVessel ==
    /\ vessel = <<>>
    /\ ret = <<>>
    /\ ticks = 0
    /\ was_complete = FALSE

\* no AISSimulator has been constructed
NoSimulator ==
    /\ sim_vessels = <<>>
    /\ simulation_running = FALSE
    /\ simulation_thread = <<>>
    /\ simulation_speed_factor = 1
    /\ websocket_connections = {}
    /\ threads = <<>>
    /\ handlers = <<>>
    /\ main_pc = [at |-> "none"]
    /\ wall = 0
    /\ commands = 0
    /\ emitted = <<>>
    /\ reported = <<>>
    /\ stop_acked = FALSE
    /\ sim_op = [kind |-> "none"]

Init == InitReceiver /\ NoValidation /\ NoClient /\ NoVessel /\ NoSimulator

dbVars == <<message_buffer, last_flush_time, ais_messages, vessels, flushed>>
qVars == <<total_messages, valid_messages, invalid_messages, duplicate_messages,
           malformed_messages, last_report_time>>

\* db_manager.connect() and initialize_database(); the receiver exits when
\* either fails
Startup ==
    /\ pc = "start"
    /\ conn' = IF CanConnect(db) THEN "open" ELSE conn
    /\ pc' = IF db = "up" THEN "running" ELSE "exited"
    /\ op' = "startup"
    /\ flushOutcome' = "not_called"
    /\ handed' = <<>>
    /\ UNCHANGED <<db, now, lastIn, closeSnapshot>>
    /\ UNCHANGED dbVars
    /\ UNCHANGED qVars
    /\ UNCHANGED <<valVars, clientVars, simVars, srvVars>>

\* websocket_client receives one message and processes it
Receive ==
    /\ pc = "running"
    /\ total_messages < MaxMessages
    /\ \E w \in WiresDb : \E failAt \in Faults : ProcessMessage(w, failAt)
    /\ UNCHANGED <<valVars, clientVars, simVars, srvVars>>

\* time passes, with a timer that flushes a buffer older than the interval
TickWithTimer ==
    /\ pc = "running"
    /\ now < MaxTime
    /\ now' = now + 1
    /\ op' = "tick"
    /\ handed' = <<>>
    /\ \E failAt \in Faults :
          SetDatabase(IF message_buffer # <<>> /\ (now + 1) - last_flush_time > FlushInterval
                      THEN flush_buffer(message_buffer, conn, db, ais_messages, vessels,
                                        last_flush_time, now + 1, failAt)
                      ELSE Untouched,
                      message_buffer)
    /\ UNCHANGED <<pc, db, lastIn, closeSnapshot>>
    /\ UNCHANGED qVars
    /\ UNCHANGED <<valVars, clientVars, simVars, srvVars>>

\* time passes
Tick ==
    /\ pc = "running"
    /\ now < MaxTime
    /\ now' = now + 1
    /\ op' = "tick"
    /\ flushOutcome' = "not_called"
    /\ handed' = <<>>
    /\ UNCHANGED <<pc, db, conn, lastIn, closeSnapshot>>
    /\ UNCHANGED dbVars
    /\ UNCHANGED qVars
    /\ UNCHANGED <<valVars, clientVars, simVars, srvVars>>

EnvStep(d, c) ==
    /\ pc = "running"
    /\ db' = d
    /\ conn' = c
    /\ op' = "env"
    /\ flushOutcome' = "not_called"
    /\ handed' = <<>>
    /\ UNCHANGED <<pc, now, lastIn, closeSnapshot>>
    /\ UNCHANGED dbVars
    /\ UNCHANGED qVars
    /\ UNCHANGED <<valVars, clientVars, simVars, srvVars>>

\* the server stays reachable but its statements fail (disk full, lock timeout)
StorageFails == db = "up" /\ EnvStep("failing", conn)

\* the server goes away: the session behind an open connection is lost
StorageGoesDown == db # "down" /\ EnvStep("down", IF conn = "open" THEN "dead" ELSE conn)

\* the server works again
StorageRecovers == db # "up" /\ EnvStep("up", conn)

\* DatabaseManager.close(), from the finally clause of main_data_receiver
Close ==
    /\ pc = "running"
    /\ \E failAt \in Faults :
        LET r == IF conn # "none"
                 THEN flush_buffer(message_buffer, conn, db, ais_messages, vessels,
                                   last_flush_time, now, failAt)
                 ELSE Untouched
        IN  /\ SetDatabase([r EXCEPT !.conn = IF r.outcome = "raised" \/ conn = "none"
                                              THEN r.conn ELSE "closed"],
                           message_buffer)
            /\ pc' = IF r.outcome = "raised" THEN "close_raised" ELSE "closed"
    /\ closeSnapshot' = message_buffer
    /\ op' = "close"
    /\ handed' = <<>>
    /\ UNCHANGED <<db, now, lastIn>>
    /\ UNCHANGED qVars
    /\ UNCHANGED <<valVars, clientVars, simVars, srvVars>>

Next ==
    \/ Startup
    \/ Receive
    \/ Tick
    \/ StorageFails
    \/ StorageGoesDown
    \/ StorageRecovers
    \/ Close

Spec == Init /\ [][Next]_vars

\* the receiver fed with every kind of wire message
ReceiveAny ==
    /\ pc = "running"
    /\ total_messages < MaxProcMessages
    /\ \E w \in WiresAll : \E failAt \in Faults : ProcessMessage(w, failAt)
    /\ UNCHANGED <<valVars, clientVars, simVars, srvVars>>

NextProc ==
    \/ Startup
    \/ ReceiveAny
    \/ StorageFails
    \/ StorageGoesDown
    \/ StorageRecovers

SpecProc == Init /\ [][NextProc]_vars

TypeOK ==
    /\ pc \in {"start", "running", "exited", "closed", "close_raised"}
    /\ db \in {"up", "failing", "down"}
    /\ conn \in {"none", "open", "dead", "closed"}
    /\ now \in 0..MaxTime
    /\ last_flush_time \in 0..now
    /\ flushOutcome \in {"not_called", "empty", "no_connection", "committed",
                         "rolled_back", "raised"}

----------------------------------------------------------------------------
(* Properties of DatabaseManager, checked under Spec *)

\* the batch a flush of the step works on: the old buffer plus the record
\* appended in the step
Batch == message_buffer \o handed'

FlushFailed(o) == o \in {"no_connection", "rolled_back", "raised"}

Stored(table, r) == \E j \in 1..Len(table) : Key(table[j]) = Key(r)

\* C1: a flush that fails leaves the stored tables as they were and keeps the
\* buffer (with the record just appended) in order and the flush clock; the
\* buffer shrinks and the flush clock moves only in a step whose flush
\* committed, which stores the whole batch, empties the buffer and sets the
\* clock to the current time.
C1_FlushAtomic ==
    [][/\ FlushFailed(flushOutcome') =>
            /\ ais_messages' = ais_messages
            /\ vessels' = vessels
            /\ message_buffer' = Batch
            /\ last_flush_time' = last_flush_time
       /\ flushOutcome' = "committed" =>
            /\ message_buffer' = <<>>
            /\ last_flush_time' = now
            /\ \A i \in 1..Len(Batch) : Stored(ais_messages', Batch[i])
       /\ (Len(message_buffer') < Len(message_buffer)
             \/ last_flush_time' # last_flush_time
             \/ ais_messages' # ais_messages
             \/ vessels' # vessels) => flushOutcome' = "committed"
      ]_vars

\* a flush of two buffered records failed and both are still buffered
C1_Witness ==
    /\ flushOutcome = "rolled_back"
    /\ Len(message_buffer) >= 2
    /\ ais_messages = <<>>

\* index of the first record of batch with the key of r
FirstWithKey(batch, r) ==
    CHOOSE i \in 1..Len(batch) :
        /\ Key(batch[i]) = Key(r)
        /\ \A k \in 1..(i - 1) : Key(batch[k]) # Key(r)

\* C2: no two stored rows share a key; a committed flush leaves the rows
\* stored before untouched, and for each record of the batch there is exactly
\* one row with its key: the row stored before, or else the row of the first
\* record of the batch with that key; a key conflict never makes a flush on a
\* working connection and server fail.
C2_FirstWriteWins ==
    [][/\ flushOutcome' = "committed" =>
            /\ Len(ais_messages') >= Len(ais_messages)
            /\ SubSeq(ais_messages', 1, Len(ais_messages)) = ais_messages
            /\ \A i \in 1..Len(Batch) :
                 LET rows == {j \in 1..Len(ais_messages') :
                                 Key(ais_messages'[j]) = Key(Batch[i])}
                 IN  /\ Cardinality(rows) = 1
                     /\ \A j \in rows :
                          \/ j <= Len(ais_messages)
                          \/ ais_messages'[j] = RowOf(Batch[FirstWithKey(Batch, Batch[i])])
       /\ (flushOutcome' \notin {"not_called", "empty"} /\ conn = "open" /\ db = "up")
            => flushOutcome' = "committed"
      ]_vars

\* a record was flushed whose key was stored already with another payload:
\* the stored row kept the first payload
C2_Witness ==
    /\ flushOutcome = "committed"
    /\ handed # <<>>
    /\ \E j \in 1..Len(ais_messages) :
         /\ Key(ais_messages[j]) = Key(handed[1])
         /\ ais_messages[j].payload # handed[1].payload

\* C3: the message_count of each vessels row equals the number of records
\* flushed for that mmsi.
C3_MessageCount ==
    /\ DOMAIN vessels = DOMAIN flushed
    /\ \A m \in DOMAIN vessels : vessels[m].message_count = flushed[m].count

\* C4: after any sequence of flushes, each vessels row has first_seen the
\* minimum and last_seen the maximum of the timestamps of all records flushed
\* for its mmsi, and every flushed mmsi has a row.
C4_SeenRange ==
    /\ DOMAIN vessels = DOMAIN flushed
    /\ \A m \in DOMAIN vessels :
         /\ vessels[m].first_seen = SetMin(flushed[m].seen)
         /\ vessels[m].last_seen = SetMax(flushed[m].seen)

\* a vessel's row merged several flushes with different timestamps
C4_Witness ==
    \E m \in DOMAIN vessels :
        /\ vessels[m].message_count >= 2
        /\ vessels[m].first_seen < vessels[m].last_seen

\* C5: once close() has returned, every record that was in the buffer when it
\* was called is stored.
C5_CloseStoresAll ==
    pc = "closed" =>
        \A i \in 1..Len(closeSnapshot) : Stored(ais_messages, closeSnapshot[i])

\* C6: an append that triggers a flush while records retained from a failed
\* flush are buffered and the server works stores every buffered record and
\* empties the buffer.
C6_RetrySucceeds ==
    [][(/\ op' = "process"
        /\ handed' # <<>>
        /\ Len(message_buffer) >= BufferSize
        /\ db = "up")
       => /\ message_buffer' = <<>>
          /\ \A i \in 1..Len(Batch) : Stored(ais_messages', Batch[i])
      ]_vars

\* C7: an append made within flush_interval of the last flush calls
\* flush_buffer exactly when it makes the buffer reach buffer_size: never for
\* appends 1..B-1 after an empty buffer, always for the B-th.
C7_SizeTrigger ==
    [][(/\ op' = "process"
        /\ handed' # <<>>
        /\ now - last_flush_time <= FlushInterval)
       => (flushOutcome' # "not_called" <=> Len(message_buffer) + 1 >= BufferSize)
      ]_vars

\* the append that filled the buffer within the interval triggered a flush
C7_Witness ==
    /\ op = "process"
    /\ flushOutcome = "rolled_back"
    /\ Len(message_buffer) = BufferSize
    /\ now - last_flush_time <= FlushInterval

\* C32: the flush is evaluated on append only: a step that appends no record
\* and is not close() leaves the buffer, the tables and last_flush_time as
\* they are and calls no flush, however much time has passed.
C32_FlushOnlyOnAppend ==
    [][(op' \notin {"process", "close"} \/ (op' = "process" /\ handed' = <<>>))
         => /\ message_buffer' = message_buffer
            /\ ais_messages' = ais_messages
            /\ vessels' = vessels
            /\ last_flush_time' = last_flush_time
            /\ flushOutcome' = "not_called"]_vars

\* time has passed beyond the flush interval with a record still buffered
C32_Witness ==
    /\ op = "tick"
    /\ pc = "running"
    /\ message_buffer # <<>>
    /\ now - last_flush_time > FlushInterval

\* C8: an append made when more than flush_interval has passed since
\* last_flush_time calls flush_buffer in the same step, whatever the buffer
\* size.
C8_TimeTrigger ==
    [][(/\ op' = "process"
        /\ handed' # <<>>
        /\ now - last_flush_time > FlushInterval)
       => flushOutcome' # "not_called"
      ]_vars

\* a single buffered record was flushed because the interval had passed
C8_Witness ==
    /\ op = "process"
    /\ flushOutcome = "rolled_back"
    /\ Len(message_buffer) = 1
    /\ Len(message_buffer) < BufferSize
    /\ now - last_flush_time > FlushInterval

----------------------------------------------------------------------------
(* Properties of AISProcessor, checked under SpecProc *)

\* C9: every record given to store_message with is_valid = TRUE has its
\* latitude in [-90, 90], its longitude in [-180, 180] and its own mmsi > 0.
C9_ValidRecordInRange ==
    (handed # <<>> /\ handed[1].is_valid) =>
        /\ -90 <= handed[1].latitude /\ handed[1].latitude <= 90
        /\ -180 <= handed[1].longitude /\ handed[1].longitude <= 180
        /\ handed[1].mmsi > 0

\* C10: a wire message with all required fields whose payload was decoded is
\* given to store_message as exactly one record, appended to the buffer,
\* carrying the validator's verdict and errors for the decoded dict; the
\* malformed counter stays, the valid counter grows by one for a valid record
\* and the invalid counter (not the valid one) grows for an invalid record.
C10_InvalidIsStored ==
    [][(/\ op' = "process"
        /\ lastIn'.required
        /\ lastIn'.ts_kind # "nonstr"
        /\ lastIn'.decodes)
       => /\ handed' # <<>>
          /\ LET rec == handed'[1]
                 v   == validate_ais_message(decode_ais_payload(rec.payload)[1])
             IN  /\ rec.is_valid = v.is_valid
                 /\ rec.validation_errors = v.errors
                 /\ rec.is_valid <=> rec.validation_errors = <<>>
                 /\ IF flushOutcome' = "committed"
                    THEN Stored(ais_messages', rec) /\ message_buffer' = <<>>
                    ELSE message_buffer' = Append(message_buffer, rec)
                 /\ malformed_messages' = malformed_messages
                 /\ IF rec.is_valid
                    THEN valid_messages' = valid_messages + 1
                    ELSE /\ valid_messages' = valid_messages
                         /\ invalid_messages' > invalid_messages
      ]_vars

\* a record that breaks several rules was buffered as invalid, not malformed
C10_Witness ==
    /\ op = "process"
    /\ handed # <<>>
    /\ ~handed[1].is_valid
    /\ Len(handed[1].validation_errors) >= 2
    /\ Len(message_buffer) >= 1
    /\ message_buffer[Len(message_buffer)] = handed[1]
    /\ invalid_messages >= 1
    /\ malformed_messages = 0

----------------------------------------------------------------------------
(* validate_ais_message on its own *)

\* the variables of the receiver, for the steps that leave it alone
recvVars == <<pc, db, conn, now, op, flushOutcome, handed, lastIn, closeSnapshot,
              message_buffer, last_flush_time, ais_messages, vessels, flushed,
              total_messages, valid_messages, invalid_messages,
              duplicate_messages, malformed_messages, last_report_time>>

\* decoded dicts: each field absent, ill-typed, on and beyond each limit
ValidatorDicts ==
    {DictOf(m, la, lo, ty) :
        m \in {<<>>, NonIntMmsi, IntMmsi(-1), IntMmsi(0), IntMmsi(1)},
        la \in {<<>>, <<-91>>, <<-90>>, <<0>>, <<90>>, <<91>>},
        lo \in {<<>>, <<-181>>, <<-180>>, <<0>>, <<180>>, <<181>>},
        ty \in {<<>>, <<1>>}}

InitValidate ==
    /\ InitReceiver /\ NoClient /\ NoVessel /\ NoSimulator
    /\ vdata \in {<<d>> : d \in ValidatorDicts}
    /\ vresult = <<>>

\* one call of validate_ais_message
Validate ==
    /\ vdata # <<>>
    /\ vresult = <<>>
    /\ vresult' = <<validate_ais_message(vdata[1])>>
    /\ UNCHANGED <<vdata, recvVars, clientVars, simVars, srvVars>>

NextValidate == Validate

SpecValidate == InitValidate /\ [][NextValidate]_vars

\* the conditions of the validator that a dict violates
Violated(d) ==
    {c \in {"mmsi", "missing", "lat", "lon", "msg_type"} :
        \/ c = "mmsi" /\ (d.mmsi = <<>> \/ ~d.mmsi[1].isint \/ d.mmsi[1].val <= 0)
        \/ c = "missing" /\ (d.lat = <<>> \/ d.lon = <<>>)
        \/ c = "lat" /\ d.lat # <<>> /\ (d.lat[1] < -90 \/ d.lat[1] > 90)
        \/ c = "lon" /\ d.lon # <<>> /\ (d.lon[1] < -180 \/ d.lon[1] > 180)
        \/ c = "msg_type" /\ d.msg_type = <<>>}

\* C11: validate_ais_message returns one error for each condition the dict
\* violates (mmsi absent, not an integer or not positive; lat or lon missing;
\* lat outside [-90, 90]; lon outside [-180, 180]; msg_type missing), also
\* when several are violated at once, and reports valid exactly when there is
\* none.
C11_AllViolationsCollected ==
    vresult # <<>> =>
        /\ Len(vresult[1].errors) = Cardinality(Violated(vdata[1]))
        /\ vresult[1].is_valid <=> Violated(vdata[1]) = {}

----------------------------------------------------------------------------
(* Properties of process_message on malformed input, checked under SpecProc *)

\* the wire message processed in the step is a JSON object that lacks a
\* required field, or its payload was tried and did not decode
MalformedInput(f) ==
    /\ f.object
    /\ \/ ~f.required
       \/ f.ts_kind # "nonstr" /\ ~f.decodes

\* C37: every received wire message is counted exactly once: a call of
\* process_message adds exactly 1 to the total counter and exactly 1 to
\* valid or invalid together, on every path.
C37_CountedOnce ==
    [][op' = "process"
         => /\ total_messages' = total_messages + 1
            /\ valid_messages' + invalid_messages'
                 = valid_messages + invalid_messages + 1]_vars

\* C38: in every state of the quality monitor the total is the sum of the
\* valid and the invalid counter, and the malformed counter is no larger than
\* the invalid counter.
C38_CountersConsistent ==
    /\ total_messages = valid_messages + invalid_messages
    /\ malformed_messages <= invalid_messages

\* a malformed message and an invalid message that is not malformed have
\* been counted
C38_Witness ==
    /\ malformed_messages >= 1
    /\ invalid_messages > malformed_messages

\* C39: the duplicate counter is 0 after any sequence of processed messages.
C39_NoDuplicateCounted == duplicate_messages = 0

\* records have been flushed whose key was stored already: fewer rows are
\* stored for a vessel than records of it were flushed
C39_Witness ==
    /\ op = "process"
    /\ total_messages >= 2
    /\ \E m \in DOMAIN flushed :
          flushed[m].count > Cardinality({j \in 1..Len(ais_messages) :
                                             ais_messages[j].mmsi = m})

C13_UnparseableTimestamp ==
    [][(/\ op' = "process"
        /\ lastIn'.required
        /\ lastIn'.ts_kind \in {"badstr", "nonstr"}
        /\ lastIn'.decodes) =>
            /\ handed' # <<>>
            /\ handed'[1].timestamp = now
            /\ malformed_messages' = malformed_messages
      ]_vars

----------------------------------------------------------------------------
(* websocket_client *)

MaxSent == 3

\* asyncio.sleep(5) of both except clauses
ReconnectDelay == 5

\* what the server sends: the n-th message of the run carries timestamp n;
\* its payload is a valid report, a report with a latitude out of range, or
\* a sentence pyais rejects
ClientPayloads ==
    {Sentence(7, 1, 10, 20),
     [parts |-> 7, body |-> <<DictOf(IntMmsi(1), <<91>>, <<20>>, <<1>>)>>],
     Garbled}

ClientWire(n, s) == WireMessage(<<1>>, Iso(n), StrPayload(s))

\* what websockets.connect and recv raise
Exceptions == {"ConnectionClosed", "Exception"}

\* mutant of except_handler: there is no except Exception clause, so any
\* other error ends the task
except_handlerClosedOnly(e) ==
    IF e = "ConnectionClosed"
    THEN [ws |-> "disconnected", sleep_left |-> ReconnectDelay]
    ELSE [ws |-> "stopped", sleep_left |-> 0]

\* the except clauses of websocket_client: both log and sleep
except_handler(e) ==
    IF e = "ConnectionClosed"
    THEN [ws |-> "disconnected", sleep_left |-> ReconnectDelay]
    ELSE [ws |-> "disconnected", sleep_left |-> ReconnectDelay]

\* mutant of recv: the newest message of the connection is returned first
recvNewest(q) == [message |-> q[Len(q)], rest |-> SubSeq(q, 1, Len(q) - 1)]

\* websocket.recv(): the oldest message of the connection not yet returned
recv(q) == [message |-> Head(q), rest |-> Tail(q)]

\* a step of the client outside process_message: the receiver is left alone
ClientOnly ==
    /\ op' = "client"
    /\ flushOutcome' = "not_called"
    /\ handed' = <<>>
    /\ UNCHANGED <<pc, db, conn, now, lastIn, closeSnapshot>>
    /\ UNCHANGED dbVars
    /\ UNCHANGED qVars
    /\ UNCHANGED <<valVars, simVars, srvVars>>

\* main_data_receiver awaits websocket_client once the database is ready
StartClient ==
    /\ pc = "running"
    /\ ws = "off"
    /\ ws' = "connecting"
    /\ UNCHANGED <<sleep_left, inbox, sent, processed>>
    /\ ClientOnly

\* websockets.connect(uri) succeeds
ConnectOk ==
    /\ ws = "connecting"
    /\ ws' = "connected"
    /\ inbox' = <<>>
    /\ UNCHANGED <<sleep_left, sent, processed>>
    /\ ClientOnly

\* an exception leaves the try block: inside connect, or inside recv
Raise(e) ==
    /\ ws' = except_handler(e).ws
    /\ sleep_left' = except_handler(e).sleep_left
    /\ inbox' = <<>>
    /\ UNCHANGED <<sent, processed>>
    /\ ClientOnly

ConnectFails == ws = "connecting" /\ \E e \in Exceptions : Raise(e)

ConnectionLost == ws = "connected" /\ \E e \in Exceptions : Raise(e)

\* the server sends the next message on the connection
ServerSends ==
    /\ ws = "connected"
    /\ sent < MaxSent
    /\ \E s \in ClientPayloads : inbox' = Append(inbox, ClientWire(sent + 1, s))
    /\ sent' = sent + 1
    /\ UNCHANGED <<ws, sleep_left, processed>>
    /\ ClientOnly

\* one round of the inner loop: recv() returns a message and process_message
\* runs to its end
Recv ==
    /\ ws = "connected"
    /\ inbox # <<>>
    /\ \E failAt \in Faults : ProcessMessage(recv(inbox).message, failAt)
    /\ inbox' = recv(inbox).rest
    /\ processed' = Append(processed, recv(inbox).message)
    /\ UNCHANGED <<ws, sleep_left, sent>>
    /\ UNCHANGED <<valVars, simVars, srvVars>>

\* a second of asyncio.sleep(5) passes
SleepSecond ==
    /\ ws = "disconnected"
    /\ sleep_left > 0
    /\ sleep_left' = sleep_left - 1
    /\ UNCHANGED <<ws, inbox, sent, processed>>
    /\ ClientOnly

\* the sleep is over and while True starts the next round
Wake ==
    /\ ws = "disconnected"
    /\ sleep_left = 0
    /\ ws' = "connecting"
    /\ UNCHANGED <<sleep_left, inbox, sent, processed>>
    /\ ClientOnly

NextClient ==
    \/ Startup
    \/ StartClient
    \/ ConnectOk
    \/ ConnectFails
    \/ ServerSends
    \/ Recv
    \/ ConnectionLost
    \/ SleepSecond
    \/ Wake
    \/ StorageFails
    \/ StorageRecovers

\* the event loop runs the client: a sleep that was started ends
SpecClient ==
    Init /\ [][NextClient]_vars /\ WF_vars(SleepSecond) /\ WF_vars(Wake)

----------------------------------------------------------------------------
(* Properties of websocket_client, checked under SpecClient *)

Online == {"connecting", "connected"}

\* C14: whenever the client leaves connecting or connected (a close or an
\* error while connecting or while connected) it is disconnected with the
\* whole fixed delay before it; it starts connecting again only when that
\* delay has passed; and from disconnected it always connects again, however
\* often that has happened before.
C14_ReconnectsForever ==
    /\ [][/\ (ws \in Online /\ ws' \notin Online) =>
                (ws' = "disconnected" /\ sleep_left' = ReconnectDelay)
          /\ (ws = "disconnected" /\ ws' # "disconnected") =>
                (ws' = "connecting" /\ sleep_left = 0)
         ]_vars
    /\ (ws = "disconnected") ~> (ws = "connecting")

\* the client is connecting again after a connection on which it had
\* processed every message the server will send
C14_Witness ==
    /\ ws = "connecting"
    /\ sent = MaxSent
    /\ Len(processed) >= 2

\* arrival number of a wire message / of a record
Arrival(w) == w.timestamp.val

Increasing(q, f(_)) == \A i, j \in 1..Len(q) : i < j => f(q[i]) < f(q[j])

RecordArrival(r) == r.timestamp

\* C15: the messages are given to process_message in arrival order and the
\* buffer holds the accepted records in arrival order; the buffer and the
\* tables change, and flush_buffer runs, only in a step that processes
\* exactly one message, and that step ends with the record of the message
\* either last in the buffer or committed with the whole buffer: an append
\* never meets a flush that is under way.
C15_SingleConsumerInOrder ==
    /\ [](Increasing(processed, Arrival) /\ Increasing(message_buffer, RecordArrival))
    /\ [][/\ (\/ message_buffer' # message_buffer
              \/ ais_messages' # ais_messages
              \/ flushOutcome' # "not_called") =>
                /\ inbox # <<>>
                /\ processed' = Append(processed, Head(inbox))
                /\ inbox' = Tail(inbox)
          /\ (Len(processed') > Len(processed) /\ handed' # <<>>) =>
                \/ /\ flushOutcome' # "committed"
                   /\ message_buffer' = Append(message_buffer, handed'[1])
                \/ /\ flushOutcome' = "committed"
                   /\ message_buffer' = <<>>
                   /\ \A k \in 1..Len(Batch) : Stored(ais_messages', Batch[k])
         ]_vars

\* two accepted records wait in the buffer in the order of their arrival,
\* after a message between them was discarded
C15_Witness ==
    /\ Len(message_buffer) = 2
    /\ message_buffer[1].timestamp = 1
    /\ message_buffer[2].timestamp = 3
    /\ Len(processed) = 3

----------------------------------------------------------------------------
(* Vessel (src/simulation/ais_simulation.py)                               *)
(*                                                                         *)
(* Coordinates are in thousandths of a degree, distances in metres, speeds *)
(* in whole knots and metres per hour, angles in whole degrees; sines and  *)
(* cosines are scaled by TrigScale.                                        *)

MaxTicks == 4
MaxE2ETicks == 10

\* KNOTS_TO_KM_PER_HOUR = 1.852, in metres per hour
KNOTS_TO_KM_PER_HOUR == 1852

TrigScale == 10000

\* TrigScale * sin of 0..90 degrees
SinTable ==
    <<
      0, 175, 349, 523, 698, 872, 1045, 1219, 1392, 1564,
      1736, 1908, 2079, 2250, 2419, 2588, 2756, 2924, 3090, 3256,
      3420, 3584, 3746, 3907, 4067, 4226, 4384, 4540, 4695, 4848,
      5000, 5150, 5299, 5446, 5592, 5736, 5878, 6018, 6157, 6293,
      6428, 6561, 6691, 6820, 6947, 7071, 7193, 7314, 7431, 7547,
      7660, 7771, 7880, 7986, 8090, 8192, 8290, 8387, 8480, 8572,
      8660, 8746, 8829, 8910, 8988, 9063, 9135, 9205, 9272, 9336,
      9397, 9455, 9511, 9563, 9613, 9659, 9703, 9744, 9781, 9816,
      9848, 9877, 9903, 9925, 9945, 9962, 9976, 9986, 9994, 9998,
      10000>>

\* math.sin of an angle in whole degrees
Sin(d) ==
    LET a == d % 360
    IN  IF a <= 90 THEN SinTable[a + 1]
        ELSE IF a <= 180 THEN SinTable[180 - a + 1]
        ELSE IF a <= 270 THEN -SinTable[a - 180 + 1]
        ELSE -SinTable[360 - a + 1]

\* math.cos of an angle in whole degrees
Cos(d) == Sin(d + 90)

\* math.degrees(math.atan2(y, x)): the angle in (-180, 180] whose direction
\* is (x, y), found as the angle on which (x, y) has its largest projection;
\* atan2(0, 0) is 0
Atan2Deg(y, x) ==
    LET Proj(t) == x * Cos(t) + y * Sin(t)
    IN  IF x = 0 /\ y = 0 THEN 0
        ELSE CHOOSE t \in -179..180 :
                Proj(t) > 0 /\ Proj(t) >= Proj(t - 1) /\ Proj(t) >= Proj(t + 1)

\* math.radians of a coordinate, as whole degrees
Deg(c) == c \div 1000

\* mutant of Normalize360: the bearing is returned as atan2 gives it
Normalize360None(bearing) == bearing

\* (bearing + 360) % 360
Normalize360(bearing) == (bearing + 360) % 360

\* Vessel._calculate_heading of two points in [lat, lon] format
calculate_heading(point1, point2) ==
    LET lat1 == Deg(point1[1])
        lon1 == Deg(point1[2])
        lat2 == Deg(point2[1])
        lon2 == Deg(point2[2])
        dlon == lon2 - lon1
        y == Sin(dlon) * Cos(lat2)
        x == Cos(lat1) * Sin(lat2)
               - ((Sin(lat1) * Cos(lat2)) \div TrigScale) * Cos(dlon)
        bearing == Atan2Deg(y \div TrigScale, x \div TrigScale)
    IN  Normalize360(bearing)

\* [lon, lat] to [lat, lon]
LatLon(c) == <<c[2], c[1]>>

\* Vessel._calculate_initial_heading
calculate_initial_heading(route_coordinates) ==
    IF Len(route_coordinates) < 2 THEN 0
    ELSE calculate_heading(LatLon(route_coordinates[1]), LatLon(route_coordinates[2]))

\* routes: the waypoints in [lon, lat] format and, for each segment, the
\* length geopy's geodesic() gives for it (WGS-84)
Route(coords, km) == [route_coordinates |-> coords, geodesic |-> km]

RouteNorth == Route(<<<<0, 0>>, <<0, 1000>>>>, <<110574>>)
RouteWest == Route(<<<<10000, 60000>>, <<9000, 60000>>>>, <<55800>>)
RouteCorner == Route(<<<<0, 60000>>, <<2000, 60000>>, <<2000, 61000>>>>, <<111600, 111412>>)
RouteBack == Route(<<<<0, 0>>, <<2000, 0>>, <<1000, 0>>>>, <<222639, 111319>>)
RouteSouthWest == Route(<<<<3000, 4000>>, <<0, 0>>>>, <<553872>>)
RoutePoint == Route(<<<<0, 0>>, <<0, 0>>>>, <<0>>)

Routes == {RouteNorth, RouteWest, RouteCorner, RouteBack, RouteSouthWest, RoutePoint}

\* a route of two waypoints 100 km apart
RouteE2E == Route(<<<<0, 26000>>, <<1000, 26000>>>>, <<100000>>)

\* the largest r in lo..hi with r * r <= n
RECURSIVE IsqrtBetween(_, _, _)
IsqrtBetween(n, lo, hi) ==
    IF lo >= hi THEN lo
    ELSE LET mid == (lo + hi + 1) \div 2
         IN  IF mid * mid <= n THEN IsqrtBetween(n, mid, hi)
             ELSE IsqrtBetween(n, lo, mid - 1)

Isqrt(n) == IsqrtBetween(n, 0, 46340)

\* length of a segment of the LineString: planar, in coordinate units
PlanarLength(p, q) ==
    Isqrt((q[1] - p[1]) * (q[1] - p[1]) + (q[2] - p[2]) * (q[2] - p[2]))

RECURSIVE SumSeq(_)
SumSeq(q) == IF q = <<>> THEN 0 ELSE Head(q) + SumSeq(Tail(q))

\* route_line.length
LineLength(coords) ==
    SumSeq([i \in 1..(Len(coords) - 1) |-> PlanarLength(coords[i], coords[i + 1])])

\* Vessel._calculate_total_distance: the sum of the geodesic segment lengths
calculate_total_distance(route) == SumSeq(route.geodesic)

\* fractions of the route are kept in thousandths
FractionScale == 1000

\* the point d along the LineString, counted from waypoint i
RECURSIVE PointFrom(_, _, _)
PointFrom(coords, i, d) ==
    LET p == coords[i]
        q == coords[i + 1]
        len == PlanarLength(p, q)
    IN  IF d > len /\ i < Len(coords) - 1 THEN PointFrom(coords, i + 1, d - len)
        ELSE IF len = 0 THEN p
        ELSE <<p[1] + ((q[1] - p[1]) * Min(d, len)) \div len,
               p[2] + ((q[2] - p[2]) * Min(d, len)) \div len>>

\* route_line.interpolate(fraction, normalized=True)
interpolate(coords, fraction) ==
    PointFrom(coords, 1, (LineLength(coords) * fraction) \div FractionScale)

\* a <= c <= b or b <= c <= a
InRange(a, b, c) == IF a <= b THEN a <= c /\ c <= b ELSE b <= c /\ c <= a

\* the segments whose bounding box holds the position
BoxSegments(coords, pos) ==
    {i \in 1..(Len(coords) - 1) :
        /\ InRange(coords[i][1], coords[i + 1][1], pos[1])
        /\ InRange(coords[i][2], coords[i + 1][2], pos[2])}

\* the segments of the routes
Segments ==
    UNION {{<<r.route_coordinates[i], r.route_coordinates[i + 1]>> :
                i \in 1..(Len(r.route_coordinates) - 1)} : r \in Routes \cup {RouteE2E}}

\* _calculate_heading(segment_start, segment_end) of each segment, in
\* [lat, lon] format, evaluated once
SegmentBearing ==
    [sg \in Segments |-> calculate_heading(LatLon(sg[1]), LatLon(sg[2]))]

\* the heading after the segment search: that of the first segment found,
\* the previous heading if there is none
SegmentHeading(coords, pos, heading) ==
    IF BoxSegments(coords, pos) = {} THEN heading
    ELSE LET i == SetMin(BoxSegments(coords, pos))
         IN  SegmentBearing[<<coords[i], coords[i + 1]>>]

\* mutant of LastWaypoint: index 0 instead of -1
LastWaypointFirst(coords) == coords[1]

\* route_coordinates[-1]
LastWaypoint(coords) == coords[Len(coords)]

\* mutant of Accumulate: the distance of the tick replaces the total
AccumulateLastOnly(traveled, distance_km) == distance_km

\* current_distance_traveled += distance_km
Accumulate(traveled, distance_km) == traveled + distance_km

\* mutant of ClampSpeed: the upper bound is not enforced
ClampSpeedNoUpper(speed_knots) == IF speed_knots < 5 THEN 5 ELSE speed_knots

\* the bounds enforced on speed_knots after the jitter
ClampSpeed(speed_knots) ==
    IF speed_knots < 5 THEN 5
    ELSE IF speed_knots > 20 THEN 20
    ELSE speed_knots

\* (random.random() * 2 - 1) * 2.0, a value of [-2, 2), in whole knots
SpeedJitter == -2..1

\* Vessel.__init__
Vessel(route, speed_knots) ==
    [route_coordinates         |-> route.route_coordinates,
     speed_knots               |-> speed_knots,
     speed_km_h                |-> speed_knots * KNOTS_TO_KM_PER_HOUR,
     total_distance_km         |-> calculate_total_distance(route),
     current_position          |-> route.route_coordinates[1],
     current_distance_traveled |-> 0,
     heading                   |-> calculate_initial_heading(route.route_coordinates)]

\* the dict update_position returns
PositionInfo(v, complete) ==
    [position |-> v.current_position, heading |-> v.heading,
     speed |-> v.speed_knots, complete |-> complete]

\* mutant of update_position: the position is left where it was when the
\* route is completed
update_positionNoSnap(v, time_interval_minutes, jitter) ==
    LET distance_km == (v.speed_km_h * time_interval_minutes) \div 60
        traveled == Accumulate(v.current_distance_traveled, distance_km)
    IN  IF traveled >= v.total_distance_km
        THEN LET done == [v EXCEPT !.current_distance_traveled = traveled]
             IN  [vessel |-> done, ret |-> PositionInfo(done, TRUE)]
        ELSE LET fraction == (traveled * FractionScale) \div v.total_distance_km
                 point == interpolate(v.route_coordinates, fraction)
                 speed == ClampSpeed(v.speed_knots + jitter)
                 moved == [v EXCEPT
                             !.current_distance_traveled = traveled,
                             !.current_position = point,
                             !.heading = SegmentHeading(v.route_coordinates, point, v.heading),
                             !.speed_knots = speed,
                             !.speed_km_h = speed * KNOTS_TO_KM_PER_HOUR]
             IN  [vessel |-> moved, ret |-> PositionInfo(moved, FALSE)]

\* Vessel.update_position: the vessel after the call and the dict returned
update_position(v, time_interval_minutes, jitter) ==
    LET distance_km == (v.speed_km_h * time_interval_minutes) \div 60
        traveled == Accumulate(v.current_distance_traveled, distance_km)
    IN  IF traveled >= v.total_distance_km
        THEN LET done == [v EXCEPT !.current_distance_traveled = traveled,
                                   !.current_position = LastWaypoint(v.route_coordinates)]
             IN  [vessel |-> done, ret |-> PositionInfo(done, TRUE)]
        ELSE LET fraction == (traveled * FractionScale) \div v.total_distance_km
                 point == interpolate(v.route_coordinates, fraction)
                 speed == ClampSpeed(v.speed_knots + jitter)
                 moved == [v EXCEPT
                             !.current_distance_traveled = traveled,
                             !.current_position = point,
                             !.heading = SegmentHeading(v.route_coordinates, point, v.heading),
                             !.speed_knots = speed,
                             !.speed_km_h = speed * KNOTS_TO_KM_PER_HOUR]
             IN  [vessel |-> moved, ret |-> PositionInfo(moved, FALSE)]

\* the speeds a Vessel is constructed with: below, inside and above [5, 20]
ConstructedSpeeds == {3, 12, 25}

\* the intervals update_position is called with
TickMinutes == {0, 180, 360}

InitVessel ==
    /\ InitReceiver /\ NoValidation /\ NoClient /\ NoSimulator
    /\ vessel \in {Vessel(r, sp) : r \in Routes, sp \in ConstructedSpeeds}
    /\ ret = <<>>
    /\ ticks = 0
    /\ was_complete = FALSE

\* one call of update_position
Update(minutes, jitter) ==
    LET u == update_position(vessel, minutes, jitter)
    IN  /\ vessel' = u.vessel
        /\ ret' = <<u.ret>>
        /\ ticks' = ticks + 1
        /\ was_complete' = (was_complete \/ u.ret.complete)
        /\ UNCHANGED <<recvVars, valVars, clientVars, srvVars>>

UpdatePosition ==
    /\ ticks < MaxTicks
    /\ \E minutes \in TickMinutes : \E jitter \in SpeedJitter : Update(minutes, jitter)

NextVessel == UpdatePosition

SpecVessel == InitVessel /\ [][NextVessel]_vars

----------------------------------------------------------------------------
(* Properties of Vessel, checked under SpecVessel *)

Destination == vessel.route_coordinates[Len(vessel.route_coordinates)]

\* C16: whenever update_position returns complete = true, the distance
\* traveled is at least the total length of the route and the position, held
\* and returned, is the last waypoint.
C16_CompleteAtDestination ==
    (ret # <<>> /\ ret[1].complete) =>
        /\ vessel.current_distance_traveled >= vessel.total_distance_km
        /\ vessel.current_position = Destination
        /\ ret[1].position = Destination

\* a vessel completed a route of two segments, having taken the heading of
\* the second segment on an earlier tick
C16_Witness ==
    /\ ret # <<>> /\ ret[1].complete
    /\ Len(vessel.route_coordinates) = 3
    /\ vessel.total_distance_km > 0
    /\ vessel.heading # calculate_initial_heading(vessel.route_coordinates)
    /\ ticks >= 2

\* C17: once update_position has returned complete = true, every later call
\* (with an interval of zero or more minutes) returns complete = true with
\* the position at the last waypoint.
C17_CompletionPermanent ==
    was_complete =>
        /\ ret[1].complete
        /\ ret[1].position = Destination
        /\ vessel.current_position = Destination

\* the call before the last one had already completed the route, and the
\* last call was made again with zero or more minutes
C17_Witness ==
    /\ was_complete
    /\ ticks >= 2
    /\ vessel.total_distance_km > 0
    /\ vessel.current_distance_traveled - 6 * vessel.speed_km_h >= vessel.total_distance_km

\* C18: after one or more update_position calls, whatever the speed the
\* vessel was constructed with and whether or not the call completed the
\* route, the speed held and the speed returned are in [5, 20] knots.
C18_SpeedInRange ==
    ret # <<>> =>
        /\ 5 <= vessel.speed_knots /\ vessel.speed_knots <= 20
        /\ 5 <= ret[1].speed /\ ret[1].speed <= 20

\* C19: the heading of a vessel is in [0, 360) at construction and after
\* every update_position call.
C19_HeadingInRange ==
    /\ 0 <= vessel.heading /\ vessel.heading < 360
    /\ ret # <<>> => (0 <= ret[1].heading /\ ret[1].heading < 360)

\* a vessel under way on a westward segment, whose atan2 bearing is negative
C19_Witness ==
    /\ ret # <<>> /\ ~ret[1].complete
    /\ vessel.heading > 180
    /\ vessel.current_position # vessel.route_coordinates[1]

\* the arc length, in coordinate units, at which the last call placed the
\* vessel on its LineString
ArcLength(v) ==
    (LineLength(v.route_coordinates)
        * ((v.current_distance_traveled * FractionScale) \div v.total_distance_km))
    \div FractionScale

\* the segments of the LineString that hold the point at arc length d (two
\* of them at a waypoint)
SegmentsAt(coords, d) ==
    {i \in 1..(Len(coords) - 1) :
        LET before == LineLength(SubSeq(coords, 1, i))
        IN  before <= d /\ d <= before + PlanarLength(coords[i], coords[i + 1])}

\* C33: after a tick that does not complete the route, the heading of the
\* vessel is the initial bearing of the segment that holds the new position,
\* the one reached at the current arc length, also on a route whose
\* segments have overlapping bounding boxes.
C33_HeadingOfCurrentSegment ==
    (ret # <<>> /\ ~ret[1].complete) =>
        \E i \in SegmentsAt(vessel.route_coordinates, ArcLength(vessel)) :
            vessel.heading = SegmentBearing[<<vessel.route_coordinates[i],
                                              vessel.route_coordinates[i + 1]>>]

\* the route a vessel was constructed on
RouteOf(v) ==
    CHOOSE r \in Routes \cup {RouteE2E} : r.route_coordinates = v.route_coordinates

\* the segments that hold the point at the distance traveled, the segment
\* lengths being the geodesic ones
GeodesicSegmentsAt(route, traveled) ==
    {i \in 1..Len(route.geodesic) :
        LET before == SumSeq(SubSeq(route.geodesic, 1, i - 1))
        IN  before <= traveled /\ traveled <= before + route.geodesic[i]}

\* C34: on a tick that does not complete the route the vessel is placed at
\* the fraction traveled / total of the route measured by the geodesic
\* lengths of the segments; here, its part about the segment: the segment
\* the vessel is placed on is one that holds the distance traveled when the
\* geodesic segment lengths are accumulated.
C34_PlacedByGeodesicLength ==
    (ret # <<>> /\ ~ret[1].complete) =>
        (SegmentsAt(vessel.route_coordinates, ArcLength(vessel))
            \cap GeodesicSegmentsAt(RouteOf(vessel), vessel.current_distance_traveled)) # {}

----------------------------------------------------------------------------
(* One vessel on a route of 100 km at 20 knots, ticked every 30 minutes *)

InitE2E ==
    /\ InitReceiver /\ NoValidation /\ NoClient /\ NoSimulator
    /\ vessel = Vessel(RouteE2E, 20)
    /\ ret = <<>>
    /\ ticks = 0
    /\ was_complete = FALSE

TickE2E ==
    /\ ticks < MaxE2ETicks
    /\ \E jitter \in SpeedJitter : Update(30, jitter)

NextE2E == TickE2E

SpecE2E == InitE2E /\ [][NextE2E]_vars

\* C20 as stated: after 5 ticks the vessel reports complete = true and is at
\* the destination waypoint.
C20_CompleteAfterFiveTicks ==
    ticks = 5 =>
        /\ ret[1].complete
        /\ ret[1].position = Destination
        /\ vessel.current_position = Destination

\* C20: the vessel is not complete after any of the first 5 ticks (2.5 hours
\* at no more than 20 knots are at most 92.6 km); it completes on the 6th
\* tick at the earliest and on the 9th at the latest, and from then on it
\* reports complete = true at the destination waypoint.
C20_CompleteByNinthTick ==
    /\ (1 <= ticks /\ ticks <= 5) => ~ret[1].complete
    /\ ticks >= 9 =>
        /\ ret[1].complete
        /\ ret[1].position = Destination
        /\ vessel.current_position = Destination
    /\ (ret # <<>> /\ ret[1].complete) => vessel.current_position = Destination

\* the vessel slowed down on every tick and completed on the 9th
C20_Witness ==
    /\ ticks = 9
    /\ ret[1].complete
    /\ vessel.current_position = Destination
    /\ vessel.current_distance_traveled - vessel.speed_km_h \div 2 < vessel.total_distance_km

----------------------------------------------------------------------------
(* DataQualityMonitor over long times *)

MaxMonMessages == 3
MaxClock == 700

\* the seconds that pass between two messages
ElapseSteps == {100, 301}

\* what the receiver is fed with: the payloads of ClientPayloads, and a
\* message that is no JSON
WiresMon ==
    {ClientWire(1, s) : s \in ClientPayloads}
    \cup {[json |-> "invalid", mmsi |-> <<>>, timestamp |-> Absent,
           payload |-> [kind |-> "absent", items |-> <<>>]]}

ReceiveMon ==
    /\ pc = "running"
    /\ total_messages < MaxMonMessages
    /\ \E w \in WiresMon : \E failAt \in Faults : ProcessMessage(w, failAt)
    /\ UNCHANGED <<valVars, clientVars, simVars, srvVars>>

\* no message arrives for a while
Elapse ==
    /\ pc = "running"
    /\ \E d \in ElapseSteps :
        /\ now + d <= MaxClock
        /\ now' = now + d
    /\ op' = "tick"
    /\ flushOutcome' = "not_called"
    /\ handed' = <<>>
    /\ UNCHANGED <<pc, db, conn, lastIn, closeSnapshot>>
    /\ UNCHANGED dbVars
    /\ UNCHANGED qVars
    /\ UNCHANGED <<valVars, clientVars, simVars, srvVars>>

NextMonitor ==
    \/ Startup
    \/ ReceiveMon
    \/ Elapse

SpecMonitor == Init /\ [][NextMonitor]_vars

\* C26: none of the counters total, valid, invalid, duplicate and malformed
\* ever decreases, whether or not the step emits a report.
C26_CountersMonotone ==
    [][/\ total_messages' >= total_messages
       /\ valid_messages' >= valid_messages
       /\ invalid_messages' >= invalid_messages
       /\ duplicate_messages' >= duplicate_messages
       /\ malformed_messages' >= malformed_messages
      ]_vars

\* a report was emitted by the third message, and the counters kept the
\* messages recorded before it
C26_Witness ==
    /\ last_report_time > 0
    /\ last_report_time = now
    /\ total_messages = 3
    /\ valid_messages >= 1
    /\ malformed_messages >= 1

\* C27: the report clock moves (a report is emitted) only in a step that
\* records a message, only when more than report_interval has passed since
\* the previous report or the start, and it is then set to the current time;
\* a message recorded after more than report_interval does emit one; a step
\* in which only time passes emits none.
C27_ReportsTrafficDriven ==
    [][/\ last_report_time' # last_report_time =>
            /\ total_messages' > total_messages
            /\ now - last_report_time > ReportInterval
            /\ last_report_time' = now
       /\ (total_messages' > total_messages /\ now - last_report_time > ReportInterval)
            => last_report_time' = now
       /\ now' # now => last_report_time' = last_report_time
      ]_vars

\* a report was emitted, and a message recorded less than report_interval
\* later emitted none
C27_Witness ==
    /\ op = "process"
    /\ last_report_time > ReportInterval
    /\ now > last_report_time
    /\ now - last_report_time <= ReportInterval

(***************************************************************************)
(* Vessel.generate_ais_message: the heading field of the report, with the  *)
(* heading of the vessel to a tenth of a degree                            *)
(***************************************************************************)

\* the values _calculate_heading returns, (bearing + 360) % 360, in tenths of
\* a degree: every heading from 0.0 to 359.9
HeadingTenths == 0..3599

\* Python's round() of n/scale: to the nearest integer, a tie to the even one
round(n, scale) ==
    LET q == n \div scale
        r == n % scale
    IN  IF 2 * r > scale THEN q + 1
        ELSE IF 2 * r < scale THEN q
        ELSE IF q % 2 = 0 THEN q ELSE q + 1

\* the course and heading fields of the position report
generate_ais_message(v) ==
    [course_tenths |-> v.heading_tenths, heading |-> round(v.heading_tenths, 10)]

InitReport ==
    /\ InitReceiver /\ NoValidation /\ NoClient /\ NoSimulator
    /\ vessel \in {[heading_tenths |-> h] : h \in HeadingTenths}
    /\ ret = <<>>
    /\ ticks = 0
    /\ was_complete = FALSE

GenerateReport ==
    /\ ret = <<>>
    /\ ret' = <<generate_ais_message(vessel)>>
    /\ UNCHANGED <<vessel, ticks, was_complete>>
    /\ UNCHANGED <<recvVars, valVars, clientVars, srvVars>>

NextReport == GenerateReport

SpecReport == InitReport /\ [][NextReport]_vars

\* C31: the heading field of every position report lies in [0, 360).
C31_ReportHeadingInRange == ret # <<>> => ret[1].heading \in 0..359

(***************************************************************************)
(* websocket_client fed with every kind of message: what leaves            *)
(* process_message                                                         *)
(***************************************************************************)

\* one wire message of each kind: not JSON, no object, a field missing, a
\* timestamp that is no string, an undecodable payload, a decoded message
\* that fails validation, and a valid one
WiresClient ==
    {[json |-> j, mmsi |-> <<>>, timestamp |-> Absent,
      payload |-> [kind |-> "absent", items |-> <<>>]] : j \in {"invalid", "nonobject"}}
    \cup {WireMessage(<<1>>, Absent, StrPayload(Sentence(7, 1, 10, 20))),
          WireMessage(<<1>>, NonStr, StrPayload(Sentence(7, 1, 10, 20))),
          WireMessage(<<1>>, Iso(1), StrPayload(Garbled)),
          WireMessage(<<1>>, Iso(1), StrPayload(Sentence(7, 1, 91, 20))),
          WireMessage(<<1>>, Iso(1), StrPayload(Sentence(7, 1, 10, 20)))}

\* the exception raised inside the try block of process_message, if any
Raised(w, failAt) ==
    IF w.json = "invalid" THEN "JSONDecodeError"
    ELSE IF w.json # "object" THEN "AttributeError"
    ELSE IF ~HasRequiredFields(w) THEN "none"
    ELSE IF w.timestamp.kind = "nonstr" THEN "TypeError"
    ELSE IF ~Decodes(w) THEN "none"
    ELSE IF Process(w, failAt).r.outcome = "raised" THEN "DatabaseError"
    ELSE "none"

\* mutant of Caught: process_message has no except Exception clause
CaughtJsonOnly(e) == e = "JSONDecodeError"

\* the except clauses of process_message: json.JSONDecodeError, then Exception
Caught(e) ==
    \/ e = "JSONDecodeError"
    \/ e \in {"JSONDecodeError", "AttributeError", "TypeError", "DatabaseError"}

\* the server sends a message of any kind once the last one was taken
ServerSendsAny ==
    /\ ws = "connected"
    /\ sent < MaxSent
    /\ inbox = <<>>
    /\ \E w \in WiresClient : inbox' = <<w>>
    /\ sent' = sent + 1
    /\ UNCHANGED <<ws, sleep_left, processed>>
    /\ ClientOnly

\* one round of the inner loop: recv() returns a message and process_message
\* runs; an exception that leaves it reaches the except clauses of
\* websocket_client
RecvAny ==
    /\ ws = "connected"
    /\ inbox # <<>>
    /\ \E failAt \in Faults :
          LET w == recv(inbox).message
              e == Raised(w, failAt)
          IN  /\ ProcessMessage(w, failAt)
              /\ IF e = "none" \/ Caught(e)
                 THEN /\ ws' = ws
                      /\ sleep_left' = sleep_left
                      /\ inbox' = recv(inbox).rest
                 ELSE /\ ws' = except_handler("Exception").ws
                      /\ sleep_left' = except_handler("Exception").sleep_left
                      /\ inbox' = <<>>
    /\ processed' = Append(processed, recv(inbox).message)
    /\ UNCHANGED sent
    /\ UNCHANGED <<valVars, simVars, srvVars>>

NextIngest ==
    \/ Startup
    \/ StartClient
    \/ ConnectOk
    \/ ServerSendsAny
    \/ RecvAny
    \/ ConnectionLost
    \/ SleepSecond
    \/ Wake
    \/ StorageGoesDown
    \/ StorageRecovers

SpecIngest == Init /\ [][NextIngest]_vars

\* C40: no failure of a message disconnects the client: whatever message
\* process_message is given, and whether or not its flush fails, the client
\* is connected afterwards and keeps the messages still to be received; the
\* client becomes disconnected only outside process_message.
C40_FailuresAbsorbed ==
    [][/\ op' = "process" => ws' = "connected" /\ inbox' = Tail(inbox)
       /\ (ws = "connected" /\ ws' # "connected") => op' = "client"]_vars

\* the client is connected after a message that is not JSON and a message
\* whose flush raised
C40_Witness ==
    /\ ws = "connected"
    /\ op = "process"
    /\ flushOutcome = "raised"
    /\ \E i \in 1..Len(processed) : processed[i].json = "invalid"

(***************************************************************************)
(* AISSimulator (src/simulation/ais_simulation.py): the event loop with    *)
(* its connection handlers, and the tick threads it starts.  The handlers  *)
(* run one at a time in the event loop; a tick thread runs beside them,    *)
(* one statement at a time.  Times are in seconds.                         *)
(***************************************************************************)
MaxCommands == 2
MaxThreads == 2

Subscribers == {"a", "b"}
Commanders == {"a"}
Closers == {"b"}
SimIntervals == {180, 360}
SimSpeedFactors == {1, 60}
SimJitter == {0}
JoinTimeout == 2

\* the fleet main_simulation adds: two vessels at the base speed
SimFleet == <<Vessel(RouteWest, 12), Vessel(RouteNorth, 12)>>
Mmsis == DOMAIN SimFleet

Simulator ==
    [simulation_running      |-> simulation_running,
     simulation_speed_factor |-> simulation_speed_factor,
     simulation_thread       |-> simulation_thread,
     threads                 |-> threads]

\* a thread object whose run method has not tested its loop condition yet
Thread(interval_minutes, start_time) ==
    [pc |-> "loop", interval_minutes |-> interval_minutes,
     simulation_time |-> start_time, active_vessels |-> 0, todo |-> <<>>,
     message |-> <<>>, targets |-> {}, visited |-> {}, disconnected |-> {},
     got |-> {}, wake_at |-> 0, reports |-> <<>>]

start_simulationAlways(sim, interval_minutes, speed_factor, start_time) ==
    [sim EXCEPT !.simulation_running = TRUE,
                !.simulation_speed_factor = speed_factor,
                !.threads = Append(sim.threads, Thread(interval_minutes, start_time)),
                !.simulation_thread = <<Len(sim.threads) + 1>>]

start_simulation(sim, interval_minutes, speed_factor, start_time) ==
    IF sim.simulation_running
    THEN sim
    ELSE [sim EXCEPT !.simulation_running = TRUE,
                     !.simulation_speed_factor = speed_factor,
                     !.threads = Append(sim.threads, Thread(interval_minutes, start_time)),
                     !.simulation_thread = <<Len(sim.threads) + 1>>]

Finished(t) == threads[t].pc \in {"done", "crashed"}
Active(t) == ~Finished(t)

\* the position report generate_ais_message encodes: the position of the
\* vessel, taken apart as lon, lat
ais_message(v) ==
    [lat |-> v.current_position[2], lon |-> v.current_position[1]]

InitSim ==
    /\ InitReceiver /\ NoValidation /\ NoClient /\ NoVessel
    /\ sim_vessels = SimFleet
    /\ simulation_running = FALSE
    /\ simulation_thread = <<>>
    /\ simulation_speed_factor = 1
    /\ websocket_connections = {}
    /\ threads = <<>>
    /\ handlers = [s \in Subscribers |-> "none"]
    /\ main_pc = [at |-> "main"]
    /\ wall = 0
    /\ commands = 0
    /\ emitted = [m \in Mmsis |-> -1]
    /\ reported = [m \in Mmsis |-> <<>>]
    /\ stop_acked = FALSE
    /\ sim_op = [kind |-> "init"]

SimOnly == UNCHANGED <<recvVars, valVars, clientVars, simVars>>

\* start_simulation as a whole; the new thread reads the clock as it starts
Started(interval_minutes, speed_factor) ==
    LET sim == start_simulation(Simulator, interval_minutes, speed_factor, wall)
    IN  /\ simulation_running' = sim.simulation_running
        /\ simulation_speed_factor' = sim.simulation_speed_factor
        /\ simulation_thread' = sim.simulation_thread
        /\ threads' = sim.threads

\* main_simulation: the simulation is started once the server listens, at the
\* default speed factor and with an interval the fleet needs two ticks of
MainStart ==
    /\ main_pc.at = "main"
    /\ Started(180, 1)
    /\ main_pc' = [at |-> "idle"]
    /\ sim_op' = [kind |-> "main_start"]
    /\ UNCHANGED <<sim_vessels, websocket_connections, handlers, wall, commands,
                   emitted, reported, stop_acked>>
    /\ SimOnly

\* handle_websocket_connection up to the first wait for a message
Connect(s) ==
    /\ main_pc.at = "idle"
    /\ handlers[s] = "none"
    /\ websocket_connections' = websocket_connections \cup {s}
    /\ handlers' = [handlers EXCEPT ![s] = "open"]
    /\ sim_op' = [kind |-> "connect"]
    /\ UNCHANGED <<sim_vessels, simulation_running, simulation_thread,
                   simulation_speed_factor, threads, main_pc, wall, commands,
                   emitted, reported, stop_acked>>
    /\ SimOnly

\* the peer closes the connection; the handler notices when it runs next
ClientCloses(s) ==
    /\ handlers[s] = "open"
    /\ handlers' = [handlers EXCEPT ![s] = "closing"]
    /\ sim_op' = [kind |-> "client_closes"]
    /\ UNCHANGED <<sim_vessels, simulation_running, simulation_thread,
                   simulation_speed_factor, websocket_connections, threads,
                   main_pc, wall, commands, emitted,
                   reported, stop_acked>>
    /\ SimOnly

\* the finally clause: set.remove raises KeyError for a missing element
HandlerEnds(s) ==
    /\ main_pc.at = "idle"
    /\ handlers[s] = "closing"
    /\ IF s \in websocket_connections
       THEN /\ websocket_connections' = websocket_connections \ {s}
            /\ handlers' = [handlers EXCEPT ![s] = "done"]
       ELSE /\ websocket_connections' = websocket_connections
            /\ handlers' = [handlers EXCEPT ![s] = "raised"]
    /\ sim_op' = [kind |-> "handler_ends"]
    /\ UNCHANGED <<sim_vessels, simulation_running, simulation_thread,
                   simulation_speed_factor, threads, main_pc, wall, commands,
                   emitted, reported, stop_acked>>
    /\ SimOnly

\* {"command": "start", ...}: start_simulation, then the acknowledgment.
\* The clock a new thread reads has moved on since any earlier reading.
StartCommand(s) ==
    /\ main_pc.at = "idle"
    /\ handlers[s] = "open"
    /\ commands < MaxCommands
    /\ simulation_running \/ Len(threads) < MaxThreads
    /\ wall' = IF simulation_running THEN wall ELSE wall + 1
    /\ \E interval_minutes \in SimIntervals, speed_factor \in SimSpeedFactors :
          LET sim == start_simulation(Simulator, interval_minutes, speed_factor, wall')
          IN  /\ simulation_running' = sim.simulation_running
              /\ simulation_speed_factor' = sim.simulation_speed_factor
              /\ simulation_thread' = sim.simulation_thread
              /\ threads' = sim.threads
              /\ sim_op' = [kind |-> "start", speed_factor |-> speed_factor,
                            interval_minutes |-> interval_minutes,
                            ack |-> "simulation_started"]
    /\ commands' = commands + 1
    /\ stop_acked' = FALSE
    /\ UNCHANGED <<sim_vessels, websocket_connections, handlers, main_pc, emitted,
                   reported>>
    /\ SimOnly

\* {"command": "stop"}: stop_simulation up to the join, or all of it and the
\* acknowledgment when there is no thread to join
StopCommand(s) ==
    /\ main_pc.at = "idle"
    /\ handlers[s] = "open"
    /\ commands < MaxCommands
    /\ simulation_running' = FALSE
    /\ commands' = commands + 1
    /\ IF simulation_thread # <<>>
       THEN /\ main_pc' = [at |-> "join", subscriber |-> s]
            /\ sim_op' = [kind |-> "stop"]
            /\ UNCHANGED stop_acked
       ELSE /\ main_pc' = main_pc
            /\ sim_op' = [kind |-> "stopped", ack |-> "simulation_stopped"]
            /\ stop_acked' = TRUE
    /\ UNCHANGED <<sim_vessels, simulation_thread, simulation_speed_factor,
                   websocket_connections, threads, handlers, wall, emitted,
                   reported>>
    /\ SimOnly

\* join(timeout=2.0) returns: the thread has ended, or two seconds have passed
\* while it sleeps or waits in a send to a subscriber.  Then the
\* acknowledgment, which reaches the sender unless the sender has closed.
JoinReturns ==
    /\ main_pc.at = "join"
    /\ LET t == simulation_thread[1]
       IN  \/ /\ Finished(t)
              /\ wall' = wall
           \/ /\ \/ threads[t].pc = "sending"
                 \/ threads[t].pc = "sleeping" /\ threads[t].wake_at >= wall + JoinTimeout
              /\ wall' = wall + JoinTimeout
    /\ simulation_thread' = <<>>
    /\ main_pc' = [at |-> "idle"]
    /\ IF handlers[main_pc.subscriber] = "open"
       THEN /\ stop_acked' = TRUE
            /\ sim_op' = [kind |-> "stopped", ack |-> "simulation_stopped"]
       ELSE /\ stop_acked' = stop_acked
            /\ sim_op' = [kind |-> "stopped", ack |-> "none"]
    /\ UNCHANGED <<sim_vessels, simulation_running, simulation_speed_factor,
                   websocket_connections, threads, handlers, commands,
                   emitted, reported>>
    /\ SimOnly

\* {"command": "set_speed_factor", ...}
SetSpeedFactor(s) ==
    /\ main_pc.at = "idle"
    /\ handlers[s] = "open"
    /\ commands < MaxCommands
    /\ \E speed_factor \in SimSpeedFactors :
          /\ speed_factor # simulation_speed_factor
          /\ simulation_speed_factor' = speed_factor
    /\ commands' = commands + 1
    /\ sim_op' = [kind |-> "set_speed_factor", ack |-> "speed_factor_updated"]
    /\ UNCHANGED <<sim_vessels, simulation_running, simulation_thread,
                   websocket_connections, threads, handlers, main_pc, wall,
                   emitted, reported, stop_acked>>
    /\ SimOnly

ThreadFrame ==
    /\ UNCHANGED <<simulation_thread, simulation_speed_factor, handlers,
                   main_pc, commands, stop_acked>>
    /\ SimOnly

\* while self.simulation_running: a new tick, or the end of the thread
LoopTest(t) ==
    /\ threads[t].pc = "loop"
    /\ IF simulation_running
       THEN threads' = [threads EXCEPT ![t].pc = "vessel",
                                       ![t].active_vessels = 0,
                                       ![t].todo = <<1, 2>>,
                                       ![t].reports = <<>>]
       ELSE threads' = [threads EXCEPT ![t].pc = "done"]
    /\ sim_op' = [kind |-> "loop"]
    /\ UNCHANGED <<sim_vessels, simulation_running, websocket_connections,
                   wall, emitted, reported>>
    /\ ThreadFrame

\* the loop body for the next vessel: update_position, the count of active
\* vessels, the report, and _broadcast_message up to its first send
VesselStep(t) ==
    /\ threads[t].pc = "vessel"
    /\ threads[t].todo # <<>>
    /\ \E jitter \in SimJitter :
          LET th == threads[t]
              mmsi == Head(th.todo)
              r == update_position(sim_vessels[mmsi], th.interval_minutes, jitter)
              active == th.active_vessels + (IF r.ret.complete THEN 0 ELSE 1)
              message == [mmsi |-> mmsi, timestamp |-> th.simulation_time]
          IN  /\ sim_vessels' = [sim_vessels EXCEPT ![mmsi] = r.vessel]
              /\ reported' = [reported EXCEPT ![mmsi] = ais_message(r.vessel)]
              /\ IF websocket_connections = {}
                 THEN threads' = [threads EXCEPT ![t].active_vessels = active,
                                                 ![t].todo = Tail(th.todo),
                                                 ![t].reports = Append(th.reports, mmsi)]
                 ELSE threads' = [threads EXCEPT ![t].pc = "sending",
                                                 ![t].active_vessels = active,
                                                 ![t].todo = Tail(th.todo),
                                                 ![t].reports = Append(th.reports, mmsi),
                                                 ![t].message = message,
                                                 ![t].targets = websocket_connections,
                                                 ![t].visited = {},
                                                 ![t].disconnected = {},
                                                 ![t].got = {}]
              /\ sim_op' = [kind |-> "update"]
    /\ UNCHANGED <<simulation_running, websocket_connections, wall, emitted>>
    /\ ThreadFrame

\* one step of the iteration over the subscriber set.  The set iterator
\* raises RuntimeError when the set has another size than at the start; a
\* set changed to the same size may be left early.
BroadcastStep(t) ==
    /\ threads[t].pc = "sending"
    /\ LET th == threads[t]
           left == websocket_connections \ th.visited
       IN  IF Cardinality(websocket_connections) # Cardinality(th.targets)
           THEN /\ threads' = [threads EXCEPT ![t].pc = "crashed"]
                /\ sim_op' = [kind |-> "broadcast_raises"]
                /\ UNCHANGED <<websocket_connections, emitted>>
           ELSE \/ /\ \E w \in left :
                        IF handlers[w] = "open"
                        THEN /\ threads' = [threads EXCEPT
                                              ![t].visited = th.visited \cup {w},
                                              ![t].got = th.got \cup {w}]
                             /\ emitted' = [emitted EXCEPT
                                              ![th.message.mmsi] = th.message.timestamp]
                             /\ sim_op' = [kind |-> "send", first |-> th.got = {},
                                           mmsi |-> th.message.mmsi]
                        ELSE /\ threads' = [threads EXCEPT
                                              ![t].visited = th.visited \cup {w},
                                              ![t].disconnected = th.disconnected \cup {w}]
                             /\ emitted' = emitted
                             /\ sim_op' = [kind |-> "send_fails"]
                   /\ UNCHANGED websocket_connections
                \/ /\ left = {} \/ websocket_connections # th.targets
                   /\ websocket_connections' = websocket_connections \ th.disconnected
                   /\ threads' = [threads EXCEPT ![t].pc = "vessel",
                                                   ![t].message = <<>>,
                                                   ![t].targets = {},
                                                   ![t].visited = {},
                                                   ![t].disconnected = {},
                                                   ![t].got = {}]
                   /\ sim_op' = [kind |-> "broadcast_ends"]
                   /\ UNCHANGED emitted
    /\ UNCHANGED <<sim_vessels, simulation_running, wall, reported>>
    /\ ThreadFrame

\* after the last vessel: the end of the simulation, the sleep, or the next tick
EndTick(t) ==
    /\ threads[t].pc = "vessel"
    /\ threads[t].todo = <<>>
    /\ LET th == threads[t]
       IN  IF th.active_vessels = 0
           THEN /\ simulation_running' = FALSE
                /\ threads' = [threads EXCEPT ![t].pc = "done"]
           ELSE /\ simulation_running' = simulation_running
                /\ IF simulation_speed_factor > 0
                   THEN threads' = [threads EXCEPT
                           ![t].pc = "sleeping",
                           ![t].wake_at = wall + (th.interval_minutes * 60)
                                                   \div simulation_speed_factor]
                   ELSE threads' = [threads EXCEPT
                           ![t].pc = "loop",
                           ![t].simulation_time = th.simulation_time
                                                    + th.interval_minutes * 60]
    /\ sim_op' = [kind |-> "end_tick"]
    /\ UNCHANGED <<sim_vessels, websocket_connections, wall, emitted, reported>>
    /\ ThreadFrame

\* time.sleep returns
WakeUp(t) ==
    /\ threads[t].pc = "sleeping"
    /\ wall' = Max(wall, threads[t].wake_at)
    /\ threads' = [threads EXCEPT
                     ![t].pc = "loop",
                     ![t].wake_at = 0,
                     ![t].simulation_time = threads[t].simulation_time
                                              + threads[t].interval_minutes * 60]
    /\ sim_op' = [kind |-> "wake"]
    /\ UNCHANGED <<sim_vessels, simulation_running, websocket_connections, emitted,
                   reported>>
    /\ ThreadFrame

NextSim ==
    \/ MainStart
    \/ \E s \in Subscribers : Connect(s)
    \/ \E s \in Closers : ClientCloses(s)
    \/ \E s \in Subscribers : HandlerEnds(s)
    \/ \E s \in Commanders : StartCommand(s)
    \/ \E s \in Commanders : StopCommand(s)
    \/ JoinReturns
    \/ \E s \in Commanders : SetSpeedFactor(s)
    \/ \E t \in DOMAIN threads : LoopTest(t)
    \/ \E t \in DOMAIN threads : VesselStep(t)
    \/ \E t \in DOMAIN threads : BroadcastStep(t)
    \/ \E t \in DOMAIN threads : EndTick(t)
    \/ \E t \in DOMAIN threads : WakeUp(t)

SpecSim == InitSim /\ [][NextSim]_vars

(***************************************************************************)
(* Properties of the simulator                                             *)
(***************************************************************************)

\* C30: the cleanup of a subscriber is safe in every order: no connection
\* handler ends with an error raised by its final removal from the
\* subscriber set, also when a failed broadcast has removed the subscriber
\* before.
C30_CleanupNeverRaises == \A s \in Subscribers : handlers[s] # "raised"

\* some tick thread is inside the iteration of _broadcast_message, after
\* its first send
Broadcasting ==
    \E t \in DOMAIN threads : threads[t].pc = "sending" /\ threads[t].visited # {}

\* C28: while a broadcast started by a tick thread iterates over the
\* subscriber set, no connection handler adds a subscriber to the set or
\* removes one from it.
C28_NoChangeWhileBroadcasting ==
    [][Broadcasting /\ sim_op'.kind \in {"connect", "handler_ends"}
         => websocket_connections' = websocket_connections]_vars

\* C29: at most one tick loop is active at any time, also when a start
\* follows a stop whose join timed out while the old loop slept: no two tick
\* threads are both inside their loops.
C29_AtMostOneTickLoop ==
    \A t1, t2 \in DOMAIN threads : Active(t1) /\ Active(t2) => t1 = t2

\* C24: after a stop command has been acknowledged, and until a later start
\* command, no vessel is advanced and no report is broadcast.
C24_NoTickAfterStop ==
    [][stop_acked => /\ sim_vessels' = sim_vessels
                     /\ sim_op'.kind \notin {"update", "send"}]_vars

\* C25: for each vessel the timestamps of the reports emitted are strictly
\* increasing in the order of emission, over any sequence of start, stop and
\* set_speed_factor commands.
C25_TimestampsIncrease ==
    [][sim_op'.kind = "send" /\ sim_op'.first /\ emitted[sim_op'.mmsi] >= 0
         => emitted'[sim_op'.mmsi] > emitted[sim_op'.mmsi]]_vars

\* C22: start is idempotent: a start command received while the simulation
\* runs starts no second tick loop and leaves the interval and the speed
\* factor of the running simulation as they are; the sender still gets the
\* acknowledgment.
C22_StartIdempotent ==
    [][sim_op'.kind = "start" /\ simulation_running
         => /\ threads' = threads
            /\ simulation_thread' = simulation_thread
            /\ simulation_speed_factor' = simulation_speed_factor
            /\ simulation_running'
            /\ sim_op'.ack = "simulation_started"]_vars

\* a start asking for another interval and another speed factor has been
\* acknowledged while the only tick loop runs with its own
C22_Witness ==
    /\ sim_op.kind = "start"
    /\ sim_op.ack = "simulation_started"
    /\ simulation_running
    /\ Len(threads) = 1
    /\ Active(1)
    /\ sim_op.interval_minutes # threads[1].interval_minutes
    /\ sim_op.speed_factor # simulation_speed_factor

\* C21: a broadcast attempts the delivery to every subscriber of the set: when
\* it ends, every subscriber the set had at its start has either received the
\* message or failed, the failed ones and no others have left the set, and
\* no subscriber was tried twice.
C21_BroadcastReachesAll ==
    [][\A t \in DOMAIN threads :
          threads[t].pc = "sending" /\ threads'[t].pc # "sending"
             => /\ threads[t].got \cup threads[t].disconnected = threads[t].targets
                /\ threads[t].got \cap threads[t].disconnected = {}
                /\ websocket_connections' = threads[t].targets \ threads[t].disconnected]_vars

\* every vessel of the fleet is at the end of its route
AllComplete ==
    \A mmsi \in Mmsis :
        sim_vessels[mmsi].current_distance_traveled >= sim_vessels[mmsi].total_distance_km

\* C23: the simulation ends by itself when every vessel reports complete: a
\* tick loop ends, with simulation_running false, at the end of the first
\* tick in which all vessels reported complete, and while the simulation
\* runs it ends at no other point.
C23_EndsWhenAllComplete ==
    [][\A t \in DOMAIN threads :
          /\ (/\ threads[t].pc = "vessel" /\ threads[t].todo = <<>>
               /\ threads[t].active_vessels = 0
               /\ threads'[t] # threads[t])
                 => threads'[t].pc = "done" /\ ~simulation_running'
          /\ (Active(t) /\ simulation_running /\ threads'[t].pc \in {"done", "crashed"})
                 => /\ threads[t].pc = "vessel" /\ threads[t].todo = <<>>
                    /\ threads[t].active_vessels = 0
                    /\ AllComplete
                    /\ ~simulation_running']_vars

\* a report at the final waypoint of a vessel
FinalReport(mmsi) ==
    LET coords == sim_vessels[mmsi].route_coordinates
    IN  [lat |-> coords[Len(coords)][2], lon |-> coords[Len(coords)][1]]

\* a vessel has completed its route
Complete(mmsi) ==
    sim_vessels[mmsi].current_distance_traveled >= sim_vessels[mmsi].total_distance_km

C35_TerminatesByItself ==
    [][/\ simulation_running' => \E t \in DOMAIN threads' : Active(t)'
       /\ \A mmsi \in Mmsis :
             sim_vessels'[mmsi] # sim_vessels[mmsi]
                => sim_vessels'[mmsi].current_distance_traveled
                      > sim_vessels[mmsi].current_distance_traveled]_vars
====
